---- MODULE Spec2Model ----
\* Verification model of the pterodactyl sftp-server: the filesystem handler
\* (path sandbox, permission set, quota cache, the four SFTP operation
\* families), the concurrent directory-size walk and the session acceptor.
\*
\* Strings of the program are sequences of one-character strings, so that
\* strings.HasPrefix, filepath.Join and filepath.Clean are computed on the
\* characters as the Go library computes them.
EXTENDS Integers, Sequences, FiniteSets, TLC

VARIABLES
    pIn,        \* SpecPath: the (Directory, rawPath) pair last given to buildPath
    pOut,       \* SpecPath: what buildPath returned for pIn
    handler,    \* the FileSystem value of the session
    osFiles,    \* the file tree of the machine
    diskCache,  \* the process-wide quota cache: key -> value
    serverJson, \* the content of the tenant's server configuration file
    privileged, \* whether the kernel lets the process change owners (chown)
    last,       \* the last handler call: the request and its outcome
    ops,        \* how many calls have been made
    dirWalk,    \* SpecDirSize: the directorySize calls and their workers
    conns,      \* SpecConn: the inbound connections and their workers
    lockCalls,  \* SpecLock: the concurrent Fileread and Filewrite calls of a handler
    session,    \* SpecSession: one connection's worker, its channels and requests
    canCall,    \* SpecCan: a permission list, a tag and what can answered
    auth,       \* SpecAuth: the oracle's answer and the password attempts made
    hostKey,    \* SpecHostKey: the host key file and the starts of the server
    quotaLog,   \* SpecQuotaTTL: what the quota check of the last call did
    writers,    \* the files the peer holds a writer of (SpecQuota, SpecQuotaTTL);
                \* SpecRace: one file and the Filewrite calls of several sessions on it
    tenants     \* SpecTenants: the calls of two tenants, and the first tenant alone

pathVars == <<pIn, pOut>>
handlerVars == <<handler, osFiles, diskCache, serverJson, privileged, last, ops>>
walkVars == <<dirWalk>>
connVars == <<conns>>
lockVars == <<lockCalls>>
sessionVars == <<session>>
canVars == <<canCall>>
authVars == <<auth>>
hostKeyVars == <<hostKey>>
ttlVars == <<quotaLog>>
raceVars == <<writers>>
tenantVars == <<tenants>>
vars == <<pIn, pOut, handler, osFiles, diskCache, serverJson, privileged, last, ops,
          dirWalk, conns, lockCalls, session, canCall, auth, hostKey, quotaLog,
          writers, tenants>>

-----------------------------------------------------------------------------
\* Bounds of the model.

\* Longest request path, in "/"-separated tokens, given to buildPath in SpecPath.
MaxTokens == 3

\* How many handler calls and cache expiries one behaviour of Spec makes.
MaxOps == 2

-----------------------------------------------------------------------------
\* Strings.

Slash == <<"/">>
Dot == <<".">>
DotDot == <<".", ".">>

\* strings.HasPrefix(s, prefix)
HasPrefix(s, prefix) ==
    /\ Len(s) >= Len(prefix)
    /\ SubSeq(s, 1, Len(prefix)) = prefix

\* strings.Split(s, "/"): the tokens between the separators, empty ones kept.
RECURSIVE SplitSlash(_)
SplitSlash(s) ==
    IF s = <<>> THEN << <<>> >>
    ELSE LET rest == SplitSlash(Tail(s))
         IN  IF Head(s) = "/"
             THEN << <<>> >> \o rest
             ELSE << <<Head(s)>> \o Head(rest) >> \o Tail(rest)

\* strings.Join(elems, "/")
RECURSIVE JoinSlash(_)
JoinSlash(elems) ==
    IF elems = <<>> THEN <<>>
    ELSE IF Len(elems) = 1 THEN Head(elems)
    ELSE Head(elems) \o Slash \o JoinSlash(Tail(elems))

\* The element stack filepath.Clean builds while it scans the tokens of a path:
\* empty tokens and "." are skipped, ".." removes the last element when there
\* is one to remove, is dropped at the root of a rooted path and is kept at the
\* front of a relative one.
RECURSIVE CleanStack(_, _, _)
CleanStack(tokens, rooted, stack) ==
    IF tokens = <<>> THEN stack
    ELSE LET t == Head(tokens)
             rest == Tail(tokens)
         IN  IF t = <<>> \/ t = Dot THEN CleanStack(rest, rooted, stack)
             ELSE IF t = DotDot
             THEN IF stack # <<>> /\ stack[Len(stack)] # DotDot
                  THEN CleanStack(rest, rooted, SubSeq(stack, 1, Len(stack) - 1))
                  ELSE IF rooted THEN CleanStack(rest, rooted, stack)
                  ELSE CleanStack(rest, rooted, Append(stack, t))
             ELSE CleanStack(rest, rooted, Append(stack, t))

\* filepath.Clean(path)
Clean(path) ==
    IF path = <<>> THEN Dot
    ELSE LET rooted == Head(path) = "/"
             stack == CleanStack(SplitSlash(path), rooted, <<>>)
             out == (IF rooted THEN Slash ELSE <<>>) \o JoinSlash(stack)
         IN  IF out = <<>> THEN Dot ELSE out

\* filepath.Join(a, b): the elements from the first non-empty one on are joined
\* with "/" and cleaned; all empty gives "".
Join(a, b) ==
    IF a # <<>> THEN Clean(a \o Slash \o b)
    ELSE IF b # <<>> THEN Clean(b)
    ELSE <<>>

\* filepath.Dir(path) of a cleaned path: everything before the last element.
Dir(path) ==
    LET idx == {i \in 1..Len(path) : path[i] = "/"}
        cut == IF idx = {} THEN 0 ELSE CHOOSE i \in idx : \A j \in idx : j <= i
    IN  IF cut = 0 THEN Dot ELSE Clean(SubSeq(path, 1, cut))

-----------------------------------------------------------------------------
\* Path sandbox.

PathError == [ok |-> FALSE, path |-> <<>>]

\* FileSystem.buildPath: the cleaned join of the handler's directory and the
\* request path, or an error when it does not start with the directory.
buildPath(fs, rawPath) ==
    LET p == Clean(Join(fs.Directory, rawPath))
    IN  IF ~HasPrefix(p, fs.Directory) THEN PathError
        ELSE [ok |-> TRUE, path |-> p]

-----------------------------------------------------------------------------
\* Names, tenants and request paths of the model.

DataRoot == <<"/", "d">>
T1 == <<"T", "1">>
T11 == <<"T", "1", "1">>
Tenants == {T1, T11}

\* path.Join(base, uuid): the directory of tenant uuid
TenantRoot(uuid) == Join(DataRoot, uuid)

PathTokens == {<<"a">>, <<"b">>, Dot, DotDot, <<>>, T1, T11}

RECURSIVE TokenSeqs(_)
TokenSeqs(n) ==
    IF n = 0 THEN {<<>>}
    ELSE LET shorter == TokenSeqs(n - 1)
         IN  shorter \cup {Append(s, t) : s \in {x \in shorter : Len(x) = n - 1},
                                          t \in PathTokens}

\* Every request path of at most MaxTokens tokens, with and without a leading "/".
SandboxInputs ==
    LET rel == {JoinSlash(s) : s \in TokenSeqs(MaxTokens)}
    IN  rel \cup {Slash \o r : r \in rel}

\* Whether the cleaned path p is root itself or lies below it.
Within(root, p) == p = root \/ HasPrefix(p, root \o Slash)

-----------------------------------------------------------------------------
\* The operating system's file tree. A tree is a function from the absolute
\* cleaned paths that exist to their nodes.

ModeFile == 420     \* 0644
ModeDir == 493      \* 0755

\* Depth of symbolic-link resolution after which the kernel gives up (ELOOP).
MaxLinks == 2

DirNode(mode, owner) ==
    [kind |-> "dir", size |-> 0, mode |-> mode, owner |-> owner, dest |-> <<>>]
FileNode(size, mode, owner) ==
    [kind |-> "file", size |-> size, mode |-> mode, owner |-> owner, dest |-> <<>>]
LinkNode(dest, owner) ==
    [kind |-> "link", size |-> Len(dest), mode |-> 511, owner |-> owner, dest |-> dest]

Exists(files, p) == p \in DOMAIN files
IsDirAt(files, p) == Exists(files, p) /\ files[p].kind = "dir"

\* The path of entry name in directory dir.
Child(dir, name) == IF dir = Slash THEN Slash \o name ELSE dir \o Slash \o name

\* The elements of a cleaned absolute path.
Elements(p) == IF p = Slash THEN <<>> ELSE Tail(SplitSlash(p))

\* The last element of a cleaned absolute path.
Base(p) == LET e == Elements(p) IN IF e = <<>> THEN <<>> ELSE e[Len(e)]

Below(p, q) == HasPrefix(q, IF p = Slash THEN p ELSE p \o Slash) /\ q # p

Children(files, p) == {q \in DOMAIN files : Below(p, q) /\ Dir(q) = p}

\* Kernel path resolution from directory cur along the elements elems. The
\* result is the real path of the entry, or an error: ENOENT with the path at
\* which the entry could be created when only the last element is missing,
\* ENOENT with an empty path when more is missing, ENOTDIR, ELOOP. A symbolic
\* link in the last position is followed only when follow is set.
RECURSIVE Walk(_, _, _, _, _)
Walk(files, cur, elems, follow, fuel) ==
    IF elems = <<>> THEN [err |-> "", path |-> cur]
    ELSE IF ~IsDirAt(files, cur) THEN [err |-> "ENOTDIR", path |-> <<>>]
    ELSE LET next == Child(cur, Head(elems))
             rest == Tail(elems)
         IN  IF ~Exists(files, next)
             THEN [err |-> "ENOENT", path |-> IF rest = <<>> THEN next ELSE <<>>]
             ELSE IF files[next].kind = "link" /\ (rest # <<>> \/ follow)
             THEN IF fuel = 0 THEN [err |-> "ELOOP", path |-> <<>>]
                  ELSE LET r == Walk(files, Slash, Elements(files[next].dest),
                                     TRUE, fuel - 1)
                       IN  IF r.err # ""
                           THEN IF rest = <<>> THEN r
                                ELSE [err |-> r.err, path |-> <<>>]
                           ELSE Walk(files, r.path, rest, follow, fuel)
             ELSE Walk(files, next, rest, follow, fuel)

Resolve(files, p, follow) ==
    IF p = <<>> THEN [err |-> "ENOENT", path |-> <<>>]
    ELSE Walk(files, Slash, Elements(p), follow, MaxLinks)

\* os.Stat(p): the error, and the node when there is none.
Stat(files, p) ==
    LET r == Resolve(files, p, TRUE)
    IN  IF r.err # "" THEN [err |-> r.err, node |-> DirNode(0, "")]
        ELSE [err |-> "", node |-> files[r.path]]

\* A test that takes every outcome of a stat for a missing file.
IsNotExistAlways(err) == TRUE

\* os.IsNotExist(err)
IsNotExist(err) == err = "ENOENT"

\* os.OpenFile(p, os.O_RDONLY, 0644)
OpenRead(files, p) == [err |-> Resolve(files, p, TRUE).err, files |-> files]

\* The owner of the entries the process creates, before any chown.
DaemonUser == "daemon"
\* The configured (uid, gid) the server chowns to.
SftpUser == "sftp"

\* os.Create(p): create or truncate, following a link in the last position.
Create(files, p) ==
    LET r == Resolve(files, p, TRUE)
    IN  IF r.err = ""
        THEN IF files[r.path].kind = "dir" THEN [err |-> "EISDIR", files |-> files]
             ELSE [err |-> "", files |-> [files EXCEPT ![r.path].size = 0]]
        ELSE IF r.err = "ENOENT" /\ r.path # <<>>
        THEN [err |-> "",
              files |-> (r.path :> FileNode(0, ModeFile, DaemonUser)) @@ files]
        ELSE [err |-> r.err, files |-> files]

\* os.Mkdir(p, 0755)
Mkdir(files, p) ==
    LET r == Resolve(files, p, FALSE)
    IN  IF r.err = "" THEN [err |-> "EEXIST", files |-> files]
        ELSE IF r.err = "ENOENT" /\ r.path # <<>>
        THEN [err |-> "", files |-> (r.path :> DirNode(ModeDir, DaemonUser)) @@ files]
        ELSE [err |-> r.err, files |-> files]

\* os.MkdirAll(p, 0755): nothing to do for a directory, an error for another
\* kind of entry, else the parent is made first and then p.
RECURSIVE MkdirAll(_, _)
MkdirAll(files, p) ==
    LET st == Stat(files, p)
    IN  IF st.err = ""
        THEN IF st.node.kind = "dir" THEN [err |-> "", files |-> files]
             ELSE [err |-> "ENOTDIR", files |-> files]
        ELSE LET up == IF Dir(p) = p THEN [err |-> "", files |-> files]
                       ELSE MkdirAll(files, Dir(p))
             IN  IF up.err # "" THEN up
                 ELSE LET made == Mkdir(up.files, p)
                          again == Resolve(up.files, p, FALSE)
                      IN  IF made.err = "" THEN made
                          ELSE IF again.err = "" /\ up.files[again.path].kind = "dir"
                          THEN [err |-> "", files |-> up.files]
                          ELSE made

\* os.Chown(p, uid, gid), following links. permitted is whether the kernel
\* lets the process change the owner.
Chown(files, p, user, permitted) ==
    LET r == Resolve(files, p, TRUE)
    IN  IF r.err # "" THEN [err |-> r.err, files |-> files]
        ELSE IF ~permitted THEN [err |-> "EPERM", files |-> files]
        ELSE [err |-> "", files |-> [files EXCEPT ![r.path].owner = user]]

\* os.Chmod(p, mode), following links.
Chmod(files, p, mode) ==
    LET r == Resolve(files, p, TRUE)
    IN  IF r.err # "" THEN [err |-> r.err, files |-> files]
        ELSE [err |-> "", files |-> [files EXCEPT ![r.path].mode = mode]]

\* The tree without p and everything below it.
Without(files, p) ==
    [q \in {x \in DOMAIN files : x # p /\ ~Below(p, x)} |-> files[q]]

\* os.Remove(p): unlink, or rmdir of an empty directory.
Remove(files, p) ==
    LET r == Resolve(files, p, FALSE)
    IN  IF r.err # "" THEN [err |-> r.err, files |-> files]
        ELSE IF files[r.path].kind = "dir" /\ Children(files, r.path) # {}
        THEN [err |-> "ENOTEMPTY", files |-> files]
        ELSE IF r.path = Slash THEN [err |-> "EBUSY", files |-> files]
        ELSE [err |-> "", files |-> Without(files, r.path)]

\* os.RemoveAll(p): p and everything below it; no error when p is missing.
RemoveAll(files, p) ==
    LET r == Resolve(files, p, FALSE)
    IN  IF r.err = "ENOENT" THEN [err |-> "", files |-> files]
        ELSE IF r.err # "" THEN [err |-> r.err, files |-> files]
        ELSE IF r.path = Slash THEN [err |-> "EBUSY", files |-> files]
        ELSE [err |-> "", files |-> Without(files, r.path)]

\* os.Symlink(oldname, newname): a link at newname that points to oldname.
Symlink(files, oldname, newname) ==
    LET r == Resolve(files, newname, FALSE)
    IN  IF r.err = "" THEN [err |-> "EEXIST", files |-> files]
        ELSE IF r.err = "ENOENT" /\ r.path # <<>>
        THEN [err |-> "", files |-> (r.path :> LinkNode(oldname, DaemonUser)) @@ files]
        ELSE [err |-> r.err, files |-> files]

\* The path of q after its ancestor (or itself) from has been moved to to.
Moved(q, from, to) == to \o SubSeq(q, Len(from) + 1, Len(q))

\* os.Lstat(p): the error, else the node and the real path of the entry, a
\* link in the last position not being followed.
Lstat(files, p) ==
    LET r == Resolve(files, p, FALSE)
    IN  IF r.err # "" THEN [err |-> r.err, node |-> DirNode(0, ""), path |-> <<>>]
        ELSE [err |-> "", node |-> files[r.path], path |-> r.path]

\* rename(2): moves the entry and everything below it, replaces a newpath
\* that is not a directory when oldpath is not one either, or an empty
\* directory when oldpath is a directory, and does nothing when the two are
\* the same file. The result names what was moved (from, to) and the
\* directory the move replaced (gone).
SysRename(files, oldpath, newpath) ==
    LET o == Resolve(files, oldpath, FALSE)
        n == Resolve(files, newpath, FALSE)
        fail(e) == [err |-> e, files |-> files, from |-> <<>>, to |-> <<>>, gone |-> {}]
    IN  IF o.err # "" THEN fail(o.err)
        ELSE IF n.err # "" /\ ~(n.err = "ENOENT" /\ n.path # <<>>) THEN fail(n.err)
        ELSE IF o.path = n.path THEN fail("")
        ELSE IF o.path = Slash \/ Below(o.path, n.path) THEN fail("EINVAL")
        ELSE IF n.err = "" /\ files[o.path].kind = "dir" /\ files[n.path].kind # "dir"
        THEN fail("ENOTDIR")
        ELSE IF n.err = "" /\ files[o.path].kind # "dir" /\ files[n.path].kind = "dir"
        THEN fail("EISDIR")
        ELSE IF n.err = "" /\ Children(files, n.path) # {} THEN fail("ENOTEMPTY")
        ELSE LET kept == {q \in DOMAIN files :
                              /\ q # o.path /\ ~Below(o.path, q)
                              /\ q # n.path /\ ~Below(n.path, q)}
                 moving == {q \in DOMAIN files : q = o.path \/ Below(o.path, q)}
                 landed == {Moved(q, o.path, n.path) : q \in moving}
             IN  [err |-> "",
                  files |-> [q \in kept \cup landed |->
                                IF q \in landed
                                THEN files[Moved(q, n.path, o.path)]
                                ELSE files[q]],
                  from |-> o.path,
                  to |-> n.path,
                  gone |-> IF n.err = "" /\ files[n.path].kind = "dir"
                           THEN {n.path} ELSE {}]

\* os.Rename(oldpath, newpath). Go looks at newpath with Lstat first: when it
\* is a directory, it looks at oldpath, and the answer is the error of that
\* Lstat, or EEXIST if the two names are the same string or oldpath is
\* another file (os.SameFile); the call goes on to rename(2) when newpath is
\* no directory, and when the two names are different paths to the one
\* directory.
Rename(files, oldpath, newpath) ==
    LET fi == Lstat(files, newpath)
        ofi == Lstat(files, oldpath)
        isDir == fi.err = "" /\ fi.node.kind = "dir"
        rn == SysRename(files, oldpath, newpath)
    IN  IF isDir /\ ofi.err # "" THEN [err |-> ofi.err, files |-> files]
        ELSE IF isDir /\ (oldpath = newpath \/ ofi.path # fi.path)
        THEN [err |-> "EEXIST", files |-> files]
        ELSE [err |-> rn.err, files |-> rn.files]

\* ioutil.ReadDir(p): the entries of directory p, sorted by name.
ReadDir(files, p) ==
    LET r == Resolve(files, p, TRUE)
    IN  IF r.err # "" THEN [err |-> r.err, entries |-> {}]
        ELSE IF files[r.path].kind # "dir" THEN [err |-> "ENOTDIR", entries |-> {}]
        ELSE [err |-> "", entries |-> Children(files, r.path)]

-----------------------------------------------------------------------------
\* Permission set.

\* A permission check that lets everyone pass.
canAlways(fs, permission) == TRUE

\* A permission check that takes the wildcard wherever it stands in the list.
canWildcardAnywhere(fs, permission) ==
    \E i \in 1..Len(fs.Permissions) : fs.Permissions[i] \in {"*", permission}

\* A permission check for which the empty tag stands for every permission.
canBlankGrants(fs, permission) ==
    \/ Len(fs.Permissions) = 1 /\ fs.Permissions[1] = "*"
    \/ \E i \in 1..Len(fs.Permissions) : fs.Permissions[i] \in {permission, ""}

\* FileSystem.can
can(fs, permission) ==
    \/ Len(fs.Permissions) = 1 /\ fs.Permissions[1] = "*"
    \/ \E i \in 1..Len(fs.Permissions) : fs.Permissions[i] = permission

-----------------------------------------------------------------------------
\* Quota cache.

\* "disk:" + UUID and "used:" + UUID
DiskKey(uuid) == <<"d", "i", "s", "k", ":">> \o uuid
UsedKey(uuid) == <<"u", "s", "e", "d", ":">> \o uuid

\* A cache that never has what it is asked for.
CacheGetMiss(cache, key) == [exists |-> FALSE, x |-> 0]

\* Cache.Get: whether the key is present, and its value.
CacheGet(cache, key) ==
    IF key \in DOMAIN cache THEN [exists |-> TRUE, x |-> cache[key]]
    ELSE [exists |-> FALSE, x |-> 0]

\* Cache.Set(key, value, cache.DefaultExpiration)
CacheSet(cache, key, value) == (key :> value) @@ cache

\* The byte order of the characters that occur in names.
Alphabet == <<".", "/", "1", ":", "T", "a", "b", "c", "d", "i", "k", "s", "u">>
CharRank(c) == CHOOSE i \in 1..Len(Alphabet) : Alphabet[i] = c

\* Whether name a sorts before name b.
RECURSIVE NameLess(_, _)
NameLess(a, b) ==
    IF b = <<>> THEN FALSE
    ELSE IF a = <<>> THEN TRUE
    ELSE IF Head(a) # Head(b) THEN CharRank(Head(a)) < CharRank(Head(b))
    ELSE NameLess(Tail(a), Tail(b))

\* The paths of set ps as ioutil.ReadDir orders them: by name.
RECURSIVE SortByName(_)
SortByName(ps) ==
    IF ps = {} THEN <<>>
    ELSE LET first == CHOOSE q \in ps :
                          \A r \in ps \ {q} : NameLess(Base(q), Base(r))
         IN  <<first>> \o SortByName(ps \ {first})

\* The sums x1 + ... + xn with xi drawn from the i-th set of the sequence.
RECURSIVE Sums(_)
Sums(sets) ==
    IF sets = <<>> THEN {0}
    ELSE {x + y : x \in Head(sets), y \in Sums(Tail(sets))}

\* Which additions to the accumulator of one directorySize call can survive
\* together. Entry i of the sorted directory is added by the calling goroutine
\* (a file) or by the worker started at position i (a directory); each
\* addition is a load followed by a store. An addition is lost when another
\* one loads before its store and stores after it: a file's addition only to a
\* worker started before it, a worker's addition to any other worker or to a
\* file's addition that comes later in the loop.
Survivors(isDir) ==
    LET n == Len(isDir)
    IN  {C \in SUBSET (1..n) :
            \A x \in (1..n) \ C :
                IF isDir[x]
                THEN \E c \in C : (isDir[c] /\ c # x) \/ (~isDir[c] /\ c > x)
                ELSE \E c \in C : isDir[c] /\ c < x}

\* FileSystem.directorySize: the values the call can return. The accumulator
\* is shared, unsynchronised, between the loop and its workers.
RECURSIVE directorySize(_, _)
directorySize(files, dir) ==
    LET rd == ReadDir(files, dir)
    IN  IF rd.err # "" THEN {0}
        ELSE LET es == SortByName(rd.entries)
                 isDir == [i \in 1..Len(es) |-> files[es[i]].kind = "dir"]
                 add == [i \in 1..Len(es) |->
                            IF isDir[i] THEN directorySize(files, es[i])
                            ELSE {files[es[i]].size}]
             IN  UNION {Sums([i \in 1..Len(es) |-> IF i \in C THEN add[i] ELSE {0}]) :
                            C \in Survivors(isDir)}

\* The sequential walk: every file's size below dir, added up.
RECURSIVE SequentialSize(_, _)
SequentialSize(files, dir) ==
    LET rd == ReadDir(files, dir)
        es == SortByName(rd.entries)
    IN  IF rd.err # "" THEN 0
        ELSE CHOOSE t \in Sums([i \in 1..Len(es) |->
                        IF files[es[i]].kind = "dir"
                        THEN {SequentialSize(files, es[i])}
                        ELSE {files[es[i]].size}]) : TRUE

\* The tenant's server configuration file: whether it can be read, whether
\* build.disk is present in it as a number, and that number.
JsonUnreadable == [readable |-> FALSE, parses |-> FALSE, disk |-> 0]
JsonNoDisk == [readable |-> TRUE, parses |-> FALSE, disk |-> 0]
JsonDisk(n) == [readable |-> TRUE, parses |-> TRUE, disk |-> n]

\* A reading of the limit that takes a file it cannot read for one without a
\* limit.
ReadLimitLenient(json) ==
    IF ~json.readable \/ ~json.parses THEN [err |-> FALSE, s |-> 0]
    ELSE [err |-> FALSE, s |-> json.disk]

\* ioutil.ReadFile(fs.ServerConfig) followed by jsonparser.GetInt(b, "build",
\* "disk"): the read error, and the limit, 0 when GetInt fails.
ReadLimit(json) ==
    IF ~json.readable THEN [err |-> TRUE, s |-> 0]
    ELSE IF ~json.parses THEN [err |-> FALSE, s |-> 0]
    ELSE [err |-> FALSE, s |-> json.disk]

\* The comparison with < in the place of <=.
WithinLimitStrict(size, space) == (size \div 1024) \div 1024 < space

\* (size / 1024.0 / 1024.0) <= space, on int64
WithinLimit(size, space) == (size \div 1024) \div 1024 <= space

\* A hasSpace that walks the directory only when the cache holds no used
\* value, and takes a cached 0 as it is.
hasSpaceTrustingZero(fs, cache, json, walk) ==
    IF fs.DisableDiskCheck
    THEN [ok |-> TRUE, cache |-> cache, read |-> FALSE, walked |-> FALSE,
          space |-> 0, size |-> 0]
    ELSE LET got == CacheGet(cache, DiskKey(fs.UUID))
             space0 == IF got.exists THEN got.x ELSE -2
             lim == ReadLimit(json)
         IN  IF space0 = -2 /\ lim.err
             THEN [ok |-> TRUE, cache |-> cache, read |-> TRUE, walked |-> FALSE,
                   space |-> space0, size |-> 0]
             ELSE LET space == IF space0 = -2 THEN lim.s ELSE space0
                      cache1 == IF space0 = -2
                                THEN CacheSet(cache, DiskKey(fs.UUID), lim.s)
                                ELSE cache
                      used == CacheGet(cache1, UsedKey(fs.UUID))
                      size == IF used.exists THEN used.x ELSE walk
                      cache2 == IF used.exists THEN cache1
                                ELSE CacheSet(cache1, UsedKey(fs.UUID), size)
                  IN  IF space <= 0
                      THEN [ok |-> TRUE, cache |-> cache1, read |-> space0 = -2,
                            walked |-> FALSE, space |-> space, size |-> 0]
                      ELSE [ok |-> WithinLimit(size, space), cache |-> cache2,
                            read |-> space0 = -2, walked |-> ~used.exists,
                            space |-> space, size |-> size]

\* FileSystem.hasSpace. json is the content of the server configuration and
\* walk the value directorySize returns should the walk be needed. The result
\* holds the answer, the cache after the call and what the call did.
hasSpace(fs, cache, json, walk) ==
    IF fs.DisableDiskCheck
    THEN [ok |-> TRUE, cache |-> cache, read |-> FALSE, walked |-> FALSE,
          space |-> 0, size |-> 0]
    ELSE LET got == CacheGet(cache, DiskKey(fs.UUID))
             space0 == IF got.exists THEN got.x ELSE -2
             lim == ReadLimit(json)
         IN  IF space0 = -2 /\ lim.err
             THEN [ok |-> TRUE, cache |-> cache, read |-> TRUE, walked |-> FALSE,
                   space |-> space0, size |-> 0]
             ELSE LET space == IF space0 = -2 THEN lim.s ELSE space0
                      cache1 == IF space0 = -2
                                THEN CacheSet(cache, DiskKey(fs.UUID), lim.s)
                                ELSE cache
                      used == CacheGet(cache1, UsedKey(fs.UUID))
                      size0 == IF used.exists THEN used.x ELSE 0
                      size == IF size0 = 0 THEN walk ELSE size0
                      cache2 == IF size0 = 0
                                THEN CacheSet(cache1, UsedKey(fs.UUID), size)
                                ELSE cache1
                  IN  IF space <= 0
                      THEN [ok |-> TRUE, cache |-> cache1, read |-> space0 = -2,
                            walked |-> FALSE, space |-> space, size |-> 0]
                      ELSE [ok |-> WithinLimit(size, space), cache |-> cache2,
                            read |-> space0 = -2, walked |-> size0 = 0,
                            space |-> space, size |-> size]

-----------------------------------------------------------------------------
\* Filesystem handler. Every operation is an operator from the handler, the
\* file tree, the cache and the request to the result sent to the peer, the
\* tree and the cache after the call, the os calls issued, in order, and the
\* FileSystem value the method worked on as it is when the method returns.

Out(fs, result, files, cache, calls) ==
    [result |-> result, files |-> files, cache |-> cache, calls |-> calls,
     fs |-> fs]

Call(name, path) == [call |-> name, path |-> path]

\* Fileread once the capability check has passed.
FilereadOpen(fs, files, cache, req) ==
    LET bp == buildPath(fs, req.Filepath)
        p == bp.path
        calls == <<Call("stat", p), Call("open", p)>>
    IN  IF ~bp.ok THEN Out(fs, "NoSuchFile", files, cache, <<>>)
        ELSE IF IsNotExist(Stat(files, p).err)
        THEN Out(fs, "NoSuchFile", files, cache, <<Call("stat", p)>>)
        ELSE IF OpenRead(files, p).err # "" THEN Out(fs, "Failure", files, cache, calls)
        ELSE Out(fs, "nil", files, cache, calls)

\* FileSystem.Fileread
Fileread(fs, files, cache, req) ==
    IF ~can(fs, "edit-files") THEN Out(fs, "PermissionDenied", files, cache, <<>>)
    ELSE FilereadOpen(fs, files, cache, req)

\* A Filewrite for which either of the two capabilities opens both pathways.
FilewriteOpenEither(fs, files, cache, p, permitted) ==
    LET st == Stat(files, p)
        mk == MkdirAll(files, Dir(p))
        cr == Create(mk.files, p)
        tr == Create(files, p)
        any == can(fs, "create-files") \/ can(fs, "save-files")
    IN  IF st.err # "" /\ ~IsNotExist(st.err) THEN Out(fs, "Failure", files, cache, <<>>)
        ELSE IF ~any THEN Out(fs, "PermissionDenied", files, cache, <<>>)
        ELSE IF IsNotExist(st.err)
        THEN IF mk.err # "" THEN Out(fs, "Failure", mk.files, cache, <<>>)
             ELSE IF cr.err # "" THEN Out(fs, "Failure", cr.files, cache, <<>>)
             ELSE Out(fs, "nil", Chown(cr.files, p, fs.User, permitted).files, cache, <<>>)
        ELSE IF tr.err # "" THEN Out(fs, "Failure", tr.files, cache, <<>>)
        ELSE Out(fs, "nil", Chown(tr.files, p, fs.User, permitted).files, cache, <<>>)

\* The part of Filewrite under the lock: stat, then create or truncate.
FilewriteOpen(fs, files, cache, p, permitted) ==
    LET st == Stat(files, p)
        dir == Dir(p)
        mk == MkdirAll(files, dir)
        cr == Create(mk.files, p)
        tr == Create(files, p)
        c1 == <<Call("stat", p)>>
        c2 == Append(c1, Call("mkdirall", dir))
        c3 == Append(c2, Call("create", p))
        c4 == Append(c1, Call("create", p))
    IN  IF IsNotExist(st.err)
        THEN IF ~can(fs, "create-files") THEN Out(fs, "PermissionDenied", files, cache, c1)
             ELSE IF mk.err # "" THEN Out(fs, "Failure", mk.files, cache, c2)
             ELSE IF cr.err # "" THEN Out(fs, "Failure", cr.files, cache, c3)
             ELSE Out(fs, "nil", Chown(cr.files, p, fs.User, permitted).files, cache,
                      Append(c3, Call("chown", p)))
        ELSE IF st.err # "" THEN Out(fs, "Failure", files, cache, c1)
        ELSE IF ~can(fs, "save-files") THEN Out(fs, "PermissionDenied", files, cache, c1)
        ELSE IF tr.err # "" THEN Out(fs, "Failure", tr.files, cache, c4)
        ELSE Out(fs, "nil", Chown(tr.files, p, fs.User, permitted).files, cache,
                 Append(c4, Call("chown", p)))

\* A Filewrite that notes in the handler that the tenant has room, so that
\* the later calls of the session skip the quota check.
FilewriteCheckedNoting(fs, files, cache, json, req, walk, permitted) ==
    LET bp == buildPath(fs, req.Filepath)
        hs == hasSpace(fs, cache, json, walk)
    IN  IF ~bp.ok THEN Out(fs, "NoSuchFile", files, cache, <<>>)
        ELSE IF ~hs.ok THEN Out(fs, "Failure", files, hs.cache, <<>>)
        ELSE FilewriteOpen([fs EXCEPT !.DisableDiskCheck = TRUE], files, hs.cache,
                           bp.path, permitted)

\* Filewrite once the read-only check has passed.
FilewriteChecked(fs, files, cache, json, req, walk, permitted) ==
    LET bp == buildPath(fs, req.Filepath)
        hs == hasSpace(fs, cache, json, walk)
    IN  IF ~bp.ok THEN Out(fs, "NoSuchFile", files, cache, <<>>)
        ELSE IF ~hs.ok THEN Out(fs, "Failure", files, hs.cache, <<>>)
        ELSE FilewriteOpen(fs, files, hs.cache, bp.path, permitted)

\* FileSystem.Filewrite
Filewrite(fs, files, cache, json, req, walk, permitted) ==
    IF fs.ReadOnly THEN Out(fs, "OpUnsupported", files, cache, <<>>)
    ELSE FilewriteChecked(fs, files, cache, json, req, walk, permitted)

\* A chown at the end of Filecmd whose failure is reported to the peer.
FilecmdChownSurfaced(fs, files, cache, p, target, calls, permitted) ==
    LET fileLocation == IF target # <<>> THEN target ELSE p
        ch == Chown(files, fileLocation, fs.User, permitted)
    IN  Out(fs, IF ch.err # "" THEN "Failure" ELSE "Ok", ch.files, cache,
            Append(calls, Call("chown", fileLocation)))

\* A chown at the end of Filecmd that is made on the path of the request in
\* every case.
FilecmdChownPathOnly(fs, files, cache, p, target, calls, permitted) ==
    Out(fs, "Ok", Chown(files, p, fs.User, permitted).files, cache, Append(calls, Call("chown", p)))

\* The chown that ends a successful Rename, Mkdir or Symlink: on the target
\* when there is one, else on the path.
FilecmdChown(fs, files, cache, p, target, calls, permitted) ==
    LET fileLocation == IF target # <<>> THEN target ELSE p
    IN  Out(fs, "Ok", Chown(files, fileLocation, fs.User, permitted).files, cache,
            Append(calls, Call("chown", fileLocation)))

\* The switch on request.Method of Filecmd.
FilecmdDispatch(fs, files, cache, req, p, target, permitted) ==
    LET denied == Out(fs, "PermissionDenied", files, cache, <<>>)
    IN  CASE req.Method = "Setstat" ->
                LET mode == IF req.IsDir THEN ModeDir ELSE ModeFile
                    ch == Chmod(files, p, mode)
                IN  Out(fs, IF ch.err # "" THEN "Failure" ELSE "nil", ch.files, cache,
                        <<Call("chmod", p)>>)
          [] req.Method = "Rename" ->
                LET rn == Rename(files, p, target)
                    calls == <<Call("rename", p), Call("rename", target)>>
                IN  IF ~can(fs, "move-files") THEN denied
                    ELSE IF rn.err # "" THEN Out(fs, "Failure", rn.files, cache, calls)
                    ELSE FilecmdChown(fs, rn.files, cache, p, target, calls, permitted)
          [] req.Method = "Rmdir" ->
                LET rm == RemoveAll(files, p)
                IN  IF ~can(fs, "delete-files") THEN denied
                    ELSE Out(fs, IF rm.err # "" THEN "Failure" ELSE "Ok", rm.files, cache,
                             <<Call("removeall", p)>>)
          [] req.Method = "Mkdir" ->
                LET mk == MkdirAll(files, p)
                    calls == <<Call("mkdirall", p)>>
                IN  IF ~can(fs, "create-files") THEN denied
                    ELSE IF mk.err # "" THEN Out(fs, "Failure", mk.files, cache, calls)
                    ELSE FilecmdChown(fs, mk.files, cache, p, target, calls, permitted)
          [] req.Method = "Symlink" ->
                LET sl == Symlink(files, p, target)
                    calls == <<Call("symlink", p), Call("symlink", target)>>
                IN  IF ~can(fs, "create-files") THEN denied
                    ELSE IF sl.err # "" THEN Out(fs, "Failure", sl.files, cache, calls)
                    ELSE FilecmdChown(fs, sl.files, cache, p, target, calls, permitted)
          [] req.Method = "Remove" ->
                LET rm == Remove(files, p)
                IN  IF ~can(fs, "delete-files") THEN denied
                    ELSE Out(fs, IF rm.err # "" THEN "Failure" ELSE "Ok", rm.files, cache,
                             <<Call("remove", p)>>)
          [] OTHER -> Out(fs, "OpUnsupported", files, cache, <<>>)

\* A Filecmd that turns the call down when the cached figures of the tenant
\* are over the limit.
FilecmdCheckedQuota(fs, files, cache, req, permitted) ==
    LET bp == buildPath(fs, req.Filepath)
        bt == buildPath(fs, req.Target)
        disk == CacheGet(cache, DiskKey(fs.UUID))
        used == CacheGet(cache, UsedKey(fs.UUID))
    IN  IF ~bp.ok THEN Out(fs, "NoSuchFile", files, cache, <<>>)
        ELSE IF /\ disk.exists /\ used.exists /\ disk.x > 0
                /\ ~WithinLimit(used.x, disk.x)
        THEN Out(fs, "Failure", files, cache, <<>>)
        ELSE IF req.Target # <<>> /\ ~bt.ok THEN Out(fs, "OpUnsupported", files, cache, <<>>)
        ELSE FilecmdDispatch(fs, files, cache, req, bp.path,
                             IF req.Target # <<>> THEN bt.path ELSE <<>>, permitted)

\* Filecmd once the read-only check has passed.
FilecmdChecked(fs, files, cache, req, permitted) ==
    LET bp == buildPath(fs, req.Filepath)
        bt == buildPath(fs, req.Target)
    IN  IF ~bp.ok THEN Out(fs, "NoSuchFile", files, cache, <<>>)
        ELSE IF req.Target # <<>> /\ ~bt.ok THEN Out(fs, "OpUnsupported", files, cache, <<>>)
        ELSE FilecmdDispatch(fs, files, cache, req, bp.path,
                             IF req.Target # <<>> THEN bt.path ELSE <<>>, permitted)

\* Filecmd without its read-only check.
FilecmdUngated(fs, files, cache, req, permitted) ==
    FilecmdChecked(fs, files, cache, req, permitted)

\* FileSystem.Filecmd
Filecmd(fs, files, cache, req, permitted) ==
    IF fs.ReadOnly THEN Out(fs, "OpUnsupported", files, cache, <<>>)
    ELSE FilecmdChecked(fs, files, cache, req, permitted)

\* A Filelist that answers Readlink by reading the link.
FilelistReadlink(fs, files, cache, req) ==
    LET bp == buildPath(fs, req.Filepath)
        p == bp.path
        denied == Out(fs, "PermissionDenied", files, cache, <<>>)
    IN  IF ~bp.ok THEN Out(fs, "NoSuchFile", files, cache, <<>>)
        ELSE IF ~can(fs, "list-files") THEN denied
        ELSE CASE req.Method = "List" ->
                    Out(fs, IF ReadDir(files, p).err # "" THEN "Failure" ELSE "nil",
                        files, cache, <<Call("readdir", p)>>)
               [] req.Method = "Stat" ->
                    Out(fs, IF IsNotExist(Stat(files, p).err) THEN "NoSuchFile"
                        ELSE IF Stat(files, p).err # "" THEN "Failure"
                        ELSE "nil",
                        files, cache, <<Call("stat", p)>>)
               [] OTHER -> Out(fs, "nil", files, cache, <<Call("readlink", p)>>)

\* FileSystem.Filelist
Filelist(fs, files, cache, req) ==
    LET bp == buildPath(fs, req.Filepath)
        p == bp.path
        denied == Out(fs, "PermissionDenied", files, cache, <<>>)
    IN  IF ~bp.ok THEN Out(fs, "NoSuchFile", files, cache, <<>>)
        ELSE CASE req.Method = "List" ->
                    IF ~can(fs, "list-files") THEN denied
                    ELSE Out(fs, IF ReadDir(files, p).err # "" THEN "Failure" ELSE "nil",
                             files, cache, <<Call("readdir", p)>>)
               [] req.Method = "Stat" ->
                    IF ~can(fs, "list-files") THEN denied
                    ELSE Out(fs, IF IsNotExist(Stat(files, p).err) THEN "NoSuchFile"
                             ELSE IF Stat(files, p).err # "" THEN "Failure"
                             ELSE "nil",
                             files, cache, <<Call("stat", p)>>)
               [] OTHER -> Out(fs, "OpUnsupported", files, cache, <<>>)

-----------------------------------------------------------------------------
\* SpecPath: buildPath applied to every input of SandboxInputs for every tenant.

NoCall == [dir |-> <<>>, raw |-> <<>>, called |-> FALSE]

PathInit ==
    /\ pIn = NoCall
    /\ pOut = PathError
    /\ handler = 0
    /\ osFiles = 0
    /\ diskCache = 0
    /\ serverJson = 0
    /\ privileged = 0
    /\ last = 0
    /\ ops = 0
    /\ dirWalk = 0
    /\ conns = 0
    /\ lockCalls = 0
    /\ session = 0
    /\ canCall = 0
    /\ auth = 0
    /\ hostKey = 0
    /\ quotaLog = 0
    /\ writers = 0
    /\ tenants = 0

ResolveCall ==
    /\ ~pIn.called
    /\ \E uuid \in Tenants, raw \in SandboxInputs :
        /\ pIn' = [dir |-> TenantRoot(uuid), raw |-> raw, called |-> TRUE]
        /\ pOut' = buildPath([Directory |-> TenantRoot(uuid)], raw)
        /\ UNCHANGED <<handlerVars, walkVars, connVars, lockVars, sessionVars, canVars,
                authVars, hostKeyVars, ttlVars, raceVars, tenantVars>>

PathNext == ResolveCall

SpecPath == PathInit /\ [][PathNext]_vars

\* C2: buildPath succeeds exactly when the cleaned join is the root or begins
\* with root + "/", and then returns the cleaned join; it fails for every other
\* cleaned path, a sibling whose name only has the root as a string prefix
\* included.
C2_ResolveExactlyWithinRoot ==
    pIn.called =>
        LET p == Clean(Join(pIn.dir, pIn.raw))
        IN  /\ pOut.ok <=> Within(pIn.dir, p)
            /\ pOut.ok => pOut.path = p

-----------------------------------------------------------------------------
\* Spec: one session's handler serving requests on a file tree.

MiB == 1048576

EmptyCache == [k \in {} |-> 0]

\* The tree the session starts on: the tenant's directory with a directory a
\* that holds a file, a file b, and the directory of the sibling tenant.
InitTree ==
    LET root == TenantRoot(T1)
        other == TenantRoot(T11)
        a == Child(root, <<"a">>)
    IN  (Slash :> DirNode(ModeDir, "root"))
        @@ (DataRoot :> DirNode(ModeDir, "root"))
        @@ (root :> DirNode(ModeDir, SftpUser))
        @@ (a :> DirNode(ModeDir, SftpUser))
        @@ (Child(a, <<"a">>) :> FileNode(MiB, ModeFile, SftpUser))
        @@ (Child(root, <<"b">>) :> FileNode(MiB + 1, ModeFile, SftpUser))
        @@ (other :> DirNode(ModeDir, SftpUser))
        @@ (Child(other, <<"a">>) :> FileNode(1, ModeFile, SftpUser))

\* The permission lists of the sessions: the owner's wildcard, the one empty
\* tag an empty list of the oracle arrives as, and lists of tags.
PermissionLists ==
    { <<"*">>,
      <<"">>,
      <<"list-files">>,
      <<"edit-files", "save-files">>,
      <<"create-files", "move-files", "delete-files">> }

ServerDataFolder == <<"/", "s">>
ServerJsonName == <<"s", "e", "r", "v", "e", "r", ".", "j", "s", "o", "n">>

\* path.Join(ServerDataFolder, uuid, "server.json")
ServerConfigPath(uuid) == Join(Join(ServerDataFolder, uuid), ServerJsonName)

\* The FileSystem value createHandler builds for a session of tenant uuid
\* with the given permissions, under the given settings.
NewHandler(uuid, permissions, readOnly, disableDiskCheck) ==
    [ ServerConfig |-> ServerConfigPath(uuid),
      Directory |-> TenantRoot(uuid),
      UUID |-> uuid,
      Permissions |-> permissions,
      ReadOnly |-> readOnly,
      DisableDiskCheck |-> disableDiskCheck,
      User |-> SftpUser ]

\* Request paths: a directory, a file, absent entries with and without their
\* parent, an entry below a file, the root, a path that leaves the data root's
\* tenant directory, and one into the sibling tenant's directory.
RequestPaths ==
    { <<"/", "a">>,
      <<"/", "b">>,
      <<"/", "c">>,
      <<"/", "c", "/", "c">>,
      <<"/", "b", "/", "c">>,
      <<>>,
      <<"/", ".", ".", "/", "c">>,
      <<"/", ".", ".", "/", "T", "1", "1", "/", "a">> }

RequestTargets ==
    { <<>>,
      <<"/", "c">>,
      <<"/", ".", ".", "/", "c">>,
      <<"/", ".", ".", "/", "T", "1", "1", "/", "c">> }

CmdMethods == {"Setstat", "Rename", "Rmdir", "Mkdir", "Symlink", "Remove", "Link"}
ListMethods == {"List", "Stat", "Readlink"}

\* The requests the protocol library hands to Filecmd: a target comes with
\* Rename and Symlink, the requested mode with Setstat.
CmdRequests ==
    {[Method |-> m, Filepath |-> f, Target |-> <<>>, IsDir |-> FALSE] :
        m \in CmdMethods, f \in RequestPaths}
    \cup {[Method |-> m, Filepath |-> f, Target |-> t, IsDir |-> FALSE] :
        m \in {"Rename", "Symlink"}, f \in RequestPaths, t \in RequestTargets}
    \cup {[Method |-> "Setstat", Filepath |-> f, Target |-> <<>>, IsDir |-> TRUE] :
        f \in RequestPaths}

Request(m, f) == [Method |-> m, Filepath |-> f, Target |-> <<>>, IsDir |-> FALSE]

NoRequest == [op |-> "none", req |-> Request("", <<>>), result |-> "",
              calls |-> <<>>, quota |-> "none", changed |-> TRUE]

Init ==
    /\ pIn = NoCall
    /\ pOut = PathError
    /\ \E perms \in PermissionLists, ro \in BOOLEAN :
            handler \in {NewHandler(T1, perms, ro, FALSE), NewHandler(T1, perms, ro, TRUE)}
    /\ osFiles = InitTree
    /\ diskCache = EmptyCache
    /\ serverJson \in {JsonUnreadable, JsonDisk(1), JsonDisk(3)}
    /\ handler.DisableDiskCheck => serverJson = JsonDisk(1)
    /\ privileged \in BOOLEAN
    /\ ~privileged => (serverJson = JsonDisk(3) /\ ~handler.ReadOnly)
    /\ last = NoRequest
    /\ ops = 0
    /\ dirWalk = 0
    /\ conns = 0
    /\ lockCalls = 0
    /\ session = 0
    /\ canCall = 0
    /\ auth = 0
    /\ hostKey = 0
    /\ quotaLog = 0
    /\ writers = 0
    /\ tenants = 0

\* The bound on the calls of a behaviour. A call that changed neither the tree
\* nor the cache leaves the handler in the state it was called in, where every
\* call that could follow it is made as well: behaviours are continued only
\* past the calls that changed something.
MayCall == ops < MaxOps /\ last.changed

\* What a call leaves behind: the tree and the cache after it, the handler,
\* and the record of the call.
Effects(op, req, out, quota) ==
    /\ osFiles' = out.files
    /\ diskCache' = out.cache
    /\ handler' = out.fs
    /\ last' = [op |-> op, req |-> req, result |-> out.result, calls |-> out.calls,
                quota |-> quota,
                changed |-> out.files # osFiles \/ out.cache # diskCache]
    /\ ops' = ops + 1

Record(op, req, out, quota) ==
    /\ Effects(op, req, out, quota)
    /\ UNCHANGED <<pIn, pOut, serverJson, privileged, dirWalk, conns,
                 lockCalls, session, canCall, auth, hostKey,
                 quotaLog, writers, tenants>>

DoFileread ==
    /\ MayCall
    /\ \E f \in RequestPaths :
        LET req == Request("Get", f)
        IN  Record("Fileread", req, Fileread(handler, osFiles, diskCache, req), "none")

\* What the quota check of a Filewrite did: "none" when it was not reached.
QuotaNote(fs, req, hs) ==
    IF fs.ReadOnly \/ ~buildPath(fs, req.Filepath).ok THEN "none"
    ELSE IF hs.ok THEN "allowed" ELSE "denied"

DoFilewrite ==
    /\ MayCall
    /\ \E f \in RequestPaths, walk \in directorySize(osFiles, handler.Directory) :
        LET req == Request("Put", f)
            hs == hasSpace(handler, diskCache, serverJson, walk)
        IN  Record("Filewrite", req,
                   Filewrite(handler, osFiles, diskCache, serverJson, req, walk,
                             privileged),
                   QuotaNote(handler, req, hs))

DoFilecmd ==
    /\ MayCall
    /\ \E req \in CmdRequests :
        Record("Filecmd", req, Filecmd(handler, osFiles, diskCache, req, privileged),
               "none")

DoFilelist ==
    /\ MayCall
    /\ \E m \in ListMethods, f \in RequestPaths :
        LET req == Request(m, f)
        IN  Record("Filelist", req, Filelist(handler, osFiles, diskCache, req), "none")

\* An entry of the cache reaches its expiration time and is gone.
Expire ==
    /\ MayCall
    /\ \E k \in DOMAIN diskCache :
        diskCache' = [j \in DOMAIN diskCache \ {k} |-> diskCache[j]]
    /\ last' = [NoRequest EXCEPT !.op = "expire"]
    /\ ops' = ops + 1
    /\ UNCHANGED <<pIn, pOut, handler, osFiles, serverJson, privileged, dirWalk, conns,
                 lockCalls, session, canCall, auth, hostKey,
                 quotaLog, writers, tenants>>

Next ==
    \/ DoFileread
    \/ DoFilewrite
    \/ DoFilecmd
    \/ DoFilelist
    \/ Expire

Spec == Init /\ [][Next]_vars

-----------------------------------------------------------------------------
\* Properties of the handler, checked under Spec.

IsCall(l) == l.op \in {"Fileread", "Filewrite", "Filecmd", "Filelist"}

\* The cleaned join of the tenant root and a request path: what the request
\* path resolves to.
Resolved(fs, raw) == Clean(Join(fs.Directory, raw))

\* The request path resolves to the root or below it.
Inside(fs, raw) == Within(fs.Directory, Resolved(fs, raw))

\* The request path is one buildPath refuses: its resolution does not have
\* the root as a string prefix.
Refused(fs, raw) == ~HasPrefix(Resolved(fs, raw), fs.Directory)

\* The call was turned down by a check that comes before path resolution.
TurnedDownEarly(fs, l) ==
    \/ l.op = "Fileread" /\ ~can(fs, "edit-files")
    \/ l.op \in {"Filewrite", "Filecmd"} /\ fs.ReadOnly

\* C1: every os call of a handler operation is on the tenant root or below
\* it, and a request whose filepath or target resolves outside the root is
\* rejected with NoSuchFile or OpUnsupported without any os call (a call
\* that a check before the path resolution turned down is left aside here).
C1_SyscallsStayInRoot ==
    IsCall(last) =>
        /\ \A i \in 1..Len(last.calls) :
                last.calls[i].path # <<>> => Within(handler.Directory, last.calls[i].path)
        /\ ( /\ ~TurnedDownEarly(handler, last)
             /\ \/ ~Inside(handler, last.req.Filepath)
                \/ last.req.Target # <<>> /\ ~Inside(handler, last.req.Target) )
           => /\ last.result \in {"NoSuchFile", "OpUnsupported"}
              /\ last.calls = <<>>

\* C3: a request whose filepath escapes the tenant root returns NoSuchFile
\* whatever the capabilities, the read-only flag, the quota and the method.
C3_EscapeAlwaysNoSuchFile ==
    (IsCall(last) /\ ~Inside(handler, last.req.Filepath)) => last.result = "NoSuchFile"

\* What holds of the paths buildPath does refuse: the request issues no os
\* call, changes nothing and returns NoSuchFile whatever the quota and the
\* method, except where an earlier check answers first: PermissionDenied from
\* Fileread to a principal without edit-files, OpUnsupported from Filewrite
\* and Filecmd in read-only mode.
RefusedPathResult ==
    (IsCall(last) /\ Refused(handler, last.req.Filepath)) =>
        /\ last.calls = <<>>
        /\ ~last.changed
        /\ last.result =
              IF last.op = "Fileread" /\ ~can(handler, "edit-files")
              THEN "PermissionDenied"
              ELSE IF last.op \in {"Filewrite", "Filecmd"} /\ handler.ReadOnly
              THEN "OpUnsupported"
              ELSE "NoSuchFile"

\* The same with the order of the checks granted: a request whose filepath
\* escapes the root, and which no check that comes before the path resolution
\* turned down, returns NoSuchFile.
EscapeResultInOrder ==
    (IsCall(last) /\ ~Inside(handler, last.req.Filepath)
        /\ ~TurnedDownEarly(handler, last))
    => last.result = "NoSuchFile"

\* The capability an operation is gated by, on the tree it is called on;
\* "none" for an operation that is not gated.
Required(fs, files, op, req) ==
    CASE op = "Fileread" -> "edit-files"
      [] op = "Filewrite" ->
            LET st == Stat(files, Resolved(fs, req.Filepath))
            IN  IF IsNotExist(st.err) THEN "create-files"
                ELSE IF st.err = "" THEN "save-files"
                ELSE "none"
      [] op = "Filecmd" ->
            CASE req.Method = "Rename" -> "move-files"
              [] req.Method \in {"Rmdir", "Remove"} -> "delete-files"
              [] req.Method \in {"Mkdir", "Symlink"} -> "create-files"
              [] OTHER -> "none"
      [] op = "Filelist" ->
            IF req.Method \in {"List", "Stat"} THEN "list-files" ELSE "none"
      [] OTHER -> "none"

\* The principal holds neither the tag nor the wildcard.
Lacks(fs, tag) ==
    /\ tag # "none"
    /\ fs.Permissions # <<"*">>
    /\ \A i \in 1..Len(fs.Permissions) : fs.Permissions[i] # tag

\* C4 as claimed: a principal without the required capability receives
\* PermissionDenied, and neither the tree nor the quota cache changes.
C4_DeniedWithoutAnyEffect ==
    [][ (IsCall(last') /\ Lacks(handler, Required(handler, osFiles, last'.op, last'.req)))
        => /\ last'.result = "PermissionDenied"
           /\ osFiles' = osFiles
           /\ diskCache' = diskCache ]_vars

\* The answer a call without the required capability gets: the error of the
\* check that comes first, PermissionDenied when none does.
DenialOf(fs, l) ==
    CASE l.op = "Fileread" -> "PermissionDenied"
      [] l.op = "Filewrite" ->
            IF fs.ReadOnly THEN "OpUnsupported"
            ELSE IF Refused(fs, l.req.Filepath) THEN "NoSuchFile"
            ELSE IF l.quota = "denied" THEN "Failure"
            ELSE "PermissionDenied"
      [] l.op = "Filecmd" ->
            IF fs.ReadOnly THEN "OpUnsupported"
            ELSE IF Refused(fs, l.req.Filepath) THEN "NoSuchFile"
            ELSE IF l.req.Target # <<>> /\ Refused(fs, l.req.Target) THEN "OpUnsupported"
            ELSE "PermissionDenied"
      [] OTHER ->
            IF Refused(fs, l.req.Filepath) THEN "NoSuchFile" ELSE "PermissionDenied"

\* C4: a call by a principal without the required capability is never
\* carried out. It is answered PermissionDenied, or with the error of a check
\* that comes before the capability check (read-only, refused path or target,
\* quota), it issues no os call other than the stat of Filewrite, and the tree
\* does not change. The cache does not change either, except that the quota
\* check of a Filewrite, which runs before its capability check, may fill the
\* tenant's two entries.
C4_DeniedWithoutTreeEffect ==
    [][ (IsCall(last') /\ Lacks(handler, Required(handler, osFiles, last'.op, last'.req)))
        => /\ last'.result = DenialOf(handler, last')
           /\ osFiles' = osFiles
           /\ \A i \in 1..Len(last'.calls) : last'.calls[i].call = "stat"
           /\ \/ diskCache' = diskCache
              \/ /\ last'.op = "Filewrite"
                 /\ last'.quota # "none"
                 /\ \A k \in DOMAIN diskCache :
                        k \in DOMAIN diskCache' /\
                        (k \notin {DiskKey(handler.UUID), UsedKey(handler.UUID)}
                            => diskCache'[k] = diskCache[k])
                 /\ DOMAIN diskCache' \subseteq
                        DOMAIN diskCache
                            \cup {DiskKey(handler.UUID), UsedKey(handler.UUID)} ]_vars

\* A Filewrite of an absent path by a principal without create-files that was
\* denied after its quota check had filled the cache.
C4_Witness ==
    /\ last.op = "Filewrite"
    /\ last.req.Filepath = <<"/", "c">>
    /\ handler.Permissions = <<"list-files">>
    /\ last.result = "PermissionDenied"
    /\ DiskKey(handler.UUID) \in DOMAIN diskCache
    /\ last.changed

\* C5: in read-only mode every Filewrite and Filecmd returns OpUnsupported,
\* issues no os call and changes nothing, for every principal; Fileread and
\* Filelist answer as they do with the flag off.
C5_ReadOnlyGate ==
    (IsCall(last) /\ handler.ReadOnly) =>
        LET off == [handler EXCEPT !.ReadOnly = FALSE]
        IN  CASE last.op \in {"Filewrite", "Filecmd"} ->
                    /\ last.result = "OpUnsupported"
                    /\ last.calls = <<>>
                    /\ ~last.changed
              [] last.op = "Fileread" ->
                    LET o == Fileread(off, osFiles, diskCache, last.req)
                    IN  last.result = o.result /\ last.calls = o.calls
              [] last.op = "Filelist" ->
                    LET o == Filelist(off, osFiles, diskCache, last.req)
                    IN  last.result = o.result /\ last.calls = o.calls

\* The wildcard owner is refused a Mkdir in read-only mode.
C5_Witness ==
    /\ handler.ReadOnly
    /\ handler.Permissions = <<"*">>
    /\ last.op = "Filecmd"
    /\ last.req.Method = "Mkdir"
    /\ last.req.Filepath = <<"/", "c">>
    /\ last.result = "OpUnsupported"

\* C15: with read-only off and the filepath inside the root, a Rename or
\* Symlink whose target is not empty and resolves outside the root returns
\* OpUnsupported and issues no os call (no rename, symlink or chown), for
\* every principal.
C15_TargetEscapeUnsupported ==
    ( /\ last.op = "Filecmd"
      /\ ~handler.ReadOnly
      /\ last.req.Method \in {"Rename", "Symlink"}
      /\ Inside(handler, last.req.Filepath)
      /\ last.req.Target # <<>>
      /\ ~Inside(handler, last.req.Target) )
    => /\ last.result = "OpUnsupported"
       /\ last.calls = <<>>
       /\ ~last.changed

\* The call succeeded in creating, truncating, renaming or linking.
Succeeded(l) ==
    \/ l.op = "Filewrite" /\ l.result = "nil"
    \/ l.op = "Filecmd" /\ l.req.Method \in {"Rename", "Mkdir", "Symlink"}
          /\ l.result = "Ok"

\* Among the os calls there is a chown whose path names the entry q of the
\* tree (a link in the last position counts as the entry named).
ChownIssuedOn(calls, files, q) ==
    \E i \in 1..Len(calls) :
        /\ calls[i].call = "chown"
        /\ Resolve(files, calls[i].path, FALSE).err = ""
        /\ Resolve(files, calls[i].path, FALSE).path = q

\* C19: a call that succeeded has issued a chown on the entry it created,
\* truncated, renamed to or linked, and a Filewrite or Mkdir also on every
\* directory it created on the way.
C19_ChownOnEverythingCreated ==
    [][ Succeeded(last') =>
          /\ \E i \in 1..Len(last'.calls) : last'.calls[i].call = "chown"
          /\ (last'.op = "Filewrite" \/ last'.req.Method = "Mkdir")
                => \A q \in DOMAIN osFiles' \ DOMAIN osFiles :
                        ChownIssuedOn(last'.calls, osFiles', q) ]_vars

\* The call got as far as its chown.
ChownReached(l) == \E i \in 1..Len(l.calls) : l.calls[i].call = "chown"

\* C20: the answer of a Filewrite or Filecmd that issued its chown is the
\* same whether the kernel lets the process change owners or not: the answer
\* given is the one the same call on the same tree gets from a kernel that
\* decides the other way about the chown.
C20_ChownFailureNotSurfaced ==
    [][ ChownReached(last') =>
          CASE last'.op = "Filecmd" ->
                last'.result =
                    Filecmd(handler, osFiles, diskCache, last'.req, ~privileged).result
            [] last'.op = "Filewrite" ->
                last'.result =
                    FilewriteOpen(handler, osFiles, diskCache',
                                  buildPath(handler, last'.req.Filepath).path,
                                  ~privileged).result
            [] OTHER -> FALSE ]_vars

\* A Mkdir answered Ok although its chown failed: the directory is there and
\* still owned by the daemon.
C20_Witness ==
    /\ ~privileged
    /\ last.op = "Filecmd"
    /\ last.req.Method = "Mkdir"
    /\ last.req.Filepath = <<"/", "c">>
    /\ last.result = "Ok"
    /\ Exists(osFiles, Child(handler.Directory, <<"c">>))
    /\ osFiles[Child(handler.Directory, <<"c">>)].owner = DaemonUser

\* C21: after a successful Setstat the entry has the mode of its kind, 0644
\* for a regular file and 0755 for a directory, whatever mode the request
\* carried and whatever the capabilities of the principal.
C21_SetstatModeByKind ==
    (last.op = "Filecmd" /\ last.req.Method = "Setstat" /\ last.result = "nil") =>
        LET r == Resolve(osFiles, Resolved(handler, last.req.Filepath), TRUE)
        IN  /\ r.err = ""
            /\ osFiles[r.path].mode =
                  IF osFiles[r.path].kind = "dir" THEN ModeDir ELSE ModeFile

\* C25: for a principal with create-files, a Mkdir of a path that is a
\* directory already returns Ok and leaves the tree as it is, and a Mkdir
\* that returned Ok, made once more, returns Ok and leaves the tree as it is.
C25_MkdirIdempotent ==
    [][ ( /\ last'.op = "Filecmd"
          /\ last'.req.Method = "Mkdir"
          /\ ~handler.ReadOnly
          /\ ~Lacks(handler, "create-files")
          /\ ~Refused(handler, last'.req.Filepath) )
        => LET st == Stat(osFiles, Resolved(handler, last'.req.Filepath))
               again == Filecmd(handler, osFiles', diskCache', last'.req, privileged)
           IN  /\ (st.err = "" /\ st.node.kind = "dir")
                     => (last'.result = "Ok" /\ osFiles' = osFiles)
               /\ last'.result = "Ok"
                     => (again.result = "Ok" /\ again.files = osFiles') ]_vars

\* A Filewrite step that got past the read-only check, the path check and the
\* quota check.
WriteDecided(fs, l) ==
    /\ l.op = "Filewrite"
    /\ ~fs.ReadOnly
    /\ ~Refused(fs, l.req.Filepath)
    /\ l.quota = "allowed"

\* C27 as stated: such a Filewrite on an absent path succeeds exactly when the
\* principal has create-files, and on an existing path exactly when it has
\* save-files.
C27_WriteIffCapability ==
    [][ WriteDecided(handler, last') =>
          LET st == Stat(osFiles, Resolved(handler, last'.req.Filepath))
          IN  /\ IsNotExist(st.err)
                    => (last'.result = "nil" <=> can(handler, "create-files"))
              /\ st.err = ""
                    => (last'.result = "nil" <=> can(handler, "save-files")) ]_vars

\* C27, amended: such a Filewrite on an absent path succeeds exactly when the
\* principal has create-files and the parents and the file can be made, and on
\* an existing path exactly when the principal has save-files and the entry
\* is not a directory. After a success the path names an empty regular file
\* in a directory; a refusal for the capability leaves the tree as it was.
C27_WriteByCapability ==
    [][ WriteDecided(handler, last') =>
          \E p \in {Resolved(handler, last'.req.Filepath)} :
          \E st \in {Stat(osFiles, p)} :
              /\ IsNotExist(st.err)
                    => ( last'.result = "nil"
                           <=> /\ can(handler, "create-files")
                               /\ \E mk \in {MkdirAll(osFiles, Dir(p))} :
                                     /\ mk.err = ""
                                     /\ Create(mk.files, p).err = "" )
              /\ st.err = ""
                    => ( last'.result = "nil"
                           <=> /\ can(handler, "save-files")
                               /\ st.node.kind # "dir" )
              /\ last'.result = "nil"
                    => /\ \E after \in {Stat(osFiles', p)} :
                            /\ after.err = ""
                            /\ after.node.kind = "file"
                            /\ after.node.size = 0
                       /\ Stat(osFiles', Dir(p)).node.kind = "dir"
              /\ last'.result = "PermissionDenied" => osFiles' = osFiles ]_vars

\* A principal with create-files and without save-files has made a file and
\* its parent directory.
C27_Witness ==
    /\ WriteDecided(handler, last)
    /\ last.result = "nil"
    /\ can(handler, "create-files") /\ ~can(handler, "save-files")
    /\ last.req.Filepath = <<"/", "c", "/", "c">>

\* The positions of the chown calls among the os calls of a handler call.
ChownCalls(calls) == {i \in DOMAIN calls : calls[i].call = "chown"}

\* C32: a Rename, Mkdir or Symlink that was answered Ok issued one chown, as
\* its last call, on the resolved target when the request has a target and on
\* the resolved filepath when it has none; a Rmdir, a Remove and every
\* Filecmd that was not answered Ok issued no chown.
C32_OneChownAfterSuccess ==
    last.op = "Filecmd" =>
        LET made == ChownCalls(last.calls)
            where == IF last.req.Target # <<>> THEN Resolved(handler, last.req.Target)
                     ELSE Resolved(handler, last.req.Filepath)
        IN  /\ (last.req.Method \in {"Rename", "Mkdir", "Symlink"} /\ last.result = "Ok")
                  => /\ made = {Len(last.calls)}
                     /\ last.calls[Len(last.calls)].path = where
            /\ (last.req.Method \in {"Rmdir", "Remove"} \/ last.result # "Ok")
                  => made = {}

\* A Rename with a target was answered Ok, after its chown on the target.
C32_Witness ==
    /\ last.op = "Filecmd"
    /\ last.req.Method = "Rename"
    /\ last.req.Target # <<>>
    /\ last.result = "Ok"
    /\ ChownCalls(last.calls) # {}
    /\ Resolved(handler, last.req.Target) # Resolved(handler, last.req.Filepath)

\* The last call was a Filecmd or a Filelist with a method its switch has no
\* case for.
UnknownMethod(l) ==
    \/ /\ l.op = "Filecmd"
       /\ l.req.Method \notin {"Setstat", "Rename", "Rmdir", "Mkdir", "Symlink", "Remove"}
    \/ /\ l.op = "Filelist"
       /\ l.req.Method \notin {"List", "Stat"}

\* C33 as stated: a call with such a method is answered OpUnsupported, and
\* neither the tree nor the cache has changed.
C33_UnknownMethodUnsupported ==
    UnknownMethod(last) => (last.result = "OpUnsupported" /\ ~last.changed)

\* C33, amended: a call with such a method issues no os call and changes
\* neither the tree nor the cache, for every principal; it is answered
\* OpUnsupported unless the filepath is one buildPath refuses, which comes
\* first and is answered NoSuchFile (by Filecmd only when not read-only).
C33_UnknownMethodNoEffect ==
    UnknownMethod(last) =>
        /\ ~last.changed
        /\ last.calls = <<>>
        /\ last.result =
              IF last.op = "Filecmd" /\ handler.ReadOnly THEN "OpUnsupported"
              ELSE IF Refused(handler, last.req.Filepath) THEN "NoSuchFile"
              ELSE "OpUnsupported"

\* A Readlink on an existing file by the owner of the tenant was answered
\* OpUnsupported.
C33_Witness ==
    /\ last.op = "Filelist"
    /\ last.req.Method = "Readlink"
    /\ last.req.Filepath = <<"/", "b">>
    /\ handler.Permissions = <<"*">>
    /\ last.result = "OpUnsupported"

\* The tags the handler asks for.
CapabilityTags ==
    {"edit-files", "save-files", "create-files", "move-files", "delete-files",
     "list-files"}

\* The principal's list is not the wildcard and holds none of the tags.
NoCapability(fs) ==
    /\ fs.Permissions # <<"*">>
    /\ \A i \in 1..Len(fs.Permissions) : fs.Permissions[i] \notin CapabilityTags

\* C35 as stated: under a principal without any capability every entry under
\* the tenant root stays as the session found it, and no entry appears there.
C35_NoCapabilityNoChange ==
    NoCapability(handler) =>
        \A p \in DOMAIN osFiles \cup DOMAIN InitTree :
            Within(handler.Directory, p)
                => (p \in DOMAIN osFiles /\ p \in DOMAIN InitTree /\ osFiles[p] = InitTree[p])

\* C35, amended: under a principal without any capability the tree keeps its
\* entries with their kind, size, owner and link destination, whatever calls
\* are made; only mode bits change, by a Setstat, and only to 0644 or 0755.
C35_NoCapabilityModeOnly ==
    NoCapability(handler) =>
        /\ DOMAIN osFiles = DOMAIN InitTree
        /\ \A p \in DOMAIN osFiles :
              /\ [osFiles[p] EXCEPT !.mode = InitTree[p].mode] = InitTree[p]
              /\ osFiles[p].mode \in {InitTree[p].mode, ModeFile, ModeDir}

\* A principal without any capability has been refused a Mkdir after its
\* Setstat had changed the mode of the directory a.
C35_Witness ==
    /\ NoCapability(handler)
    /\ ops = MaxOps
    /\ last.op = "Filecmd" /\ last.req.Method = "Mkdir"
    /\ last.result = "PermissionDenied"
    /\ osFiles[Child(TenantRoot(T1), <<"a">>)].mode = ModeFile

\* C36: the tenant root is a directory of the tree in every state, whatever
\* calls have been made.
C36_TenantRootStays ==
    /\ handler.Directory \in DOMAIN osFiles
    /\ osFiles[handler.Directory].kind = "dir"

\* The cached figures of the tenant say that it is over its limit.
OverQuota(fs, cache) ==
    /\ DiskKey(fs.UUID) \in DOMAIN cache
    /\ UsedKey(fs.UUID) \in DOMAIN cache
    /\ cache[DiskKey(fs.UUID)] > 0
    /\ ~WithinLimit(cache[UsedKey(fs.UUID)], cache[DiskKey(fs.UUID)])

\* C38: a Fileread, Filelist or Filecmd leaves the quota cache as it was, and
\* its result and the tree after it, when the cache holds entries, are those
\* of the same call made with an empty cache; a Filewrite of a read-only handler, or one whose path is
\* refused, leaves the cache as it was.
C38_QuotaGatesFilewriteOnly ==
    [][ IsCall(last') =>
          /\ last'.op # "Filewrite" => diskCache' = diskCache
          /\ ( /\ last'.op = "Filewrite"
               /\ handler.ReadOnly \/ Refused(handler, last'.req.Filepath) )
                => diskCache' = diskCache
          /\ last'.op = "Filecmd" /\ diskCache # EmptyCache =>
                \E out \in {Filecmd(handler, osFiles, EmptyCache, last'.req, privileged)} :
                    out.result = last'.result /\ out.files = osFiles'
          /\ last'.op = "Fileread" /\ diskCache # EmptyCache =>
                Fileread(handler, osFiles, EmptyCache, last'.req).result = last'.result
          /\ last'.op = "Filelist" /\ diskCache # EmptyCache =>
                Filelist(handler, osFiles, EmptyCache, last'.req).result = last'.result
      ]_vars

\* A Mkdir has succeeded for a tenant whose cached figures are over the limit.
C38_Witness ==
    /\ last.op = "Filecmd"
    /\ last.req.Method = "Mkdir"
    /\ last.result = "Ok"
    /\ last.changed
    /\ OverQuota(handler, diskCache)

-----------------------------------------------------------------------------
\* SpecQuota: the quota check of Filewrite, for a tenant whose directory holds
\* one file, over the sizes around the limits and every kind of configuration.

\* How many calls, expiries and writes of data one behaviour of SpecQuota makes.
MaxQuotaOps == 3

QuotaSizes == {0, 1, MiB - 1, MiB, MiB + 1, 2 * MiB, 10 * MiB, 10 * MiB + 1, 11 * MiB}

\* The configurations: a file that cannot be read, one without build.disk,
\* and the limits -2 (the value hasSpace takes for "not in the cache"), -1,
\* 0, 1 and 10.
QuotaConfigs ==
    {JsonUnreadable, JsonNoDisk, JsonDisk(-2), JsonDisk(-1), JsonDisk(0), JsonDisk(1),
     JsonDisk(10)}

\* The tenant's directory with the one file b of the given size.
QuotaTree(size) ==
    (Slash :> DirNode(ModeDir, "root"))
    @@ (DataRoot :> DirNode(ModeDir, "root"))
    @@ (TenantRoot(T1) :> DirNode(ModeDir, SftpUser))
    @@ (Child(TenantRoot(T1), <<"b">>) :> FileNode(size, ModeFile, SftpUser))

QuotaInit ==
    /\ pIn = NoCall
    /\ pOut = PathError
    /\ handler \in {NewHandler(T1, <<"*">>, FALSE, ddc) : ddc \in BOOLEAN}
    /\ osFiles \in {QuotaTree(size) : size \in QuotaSizes}
    /\ diskCache = EmptyCache
    /\ serverJson \in QuotaConfigs
    /\ privileged = TRUE
    /\ last = NoRequest
    /\ ops = 0
    /\ dirWalk = 0
    /\ conns = 0
    /\ lockCalls = 0
    /\ session = 0
    /\ canCall = 0
    /\ auth = 0
    /\ hostKey = 0
    /\ quotaLog = 0
    /\ writers = {}
    /\ tenants = 0

\* The files the peer holds a writer of after a Filewrite: a call that
\* returns a writer returns the file it opened at the path of the request.
\* The peer may keep the writer as long as it likes.
WritersAfter(fs, req, out) ==
    IF out.result = "nil" THEN writers \cup {Resolved(fs, req.Filepath)} ELSE writers

\* A Filewrite of the file b or of the absent c.
QuotaWrite ==
    /\ ops < MaxQuotaOps
    /\ \E f \in {<<"/", "b">>, <<"/", "c">>},
          walk \in directorySize(osFiles, handler.Directory) :
        LET req == Request("Put", f)
            hs == hasSpace(handler, diskCache, serverJson, walk)
            out == Filewrite(handler, osFiles, diskCache, serverJson, req, walk,
                             privileged)
        IN  /\ Effects("Filewrite", req, out, QuotaNote(handler, req, hs))
            /\ writers' = WritersAfter(handler, req, out)
    /\ UNCHANGED <<pIn, pOut, serverJson, privileged, dirWalk, conns,
                 lockCalls, session, canCall, auth, hostKey,
                 quotaLog, tenants>>

\* The peer writes through a writer a Filewrite has returned, be it the last
\* call or an earlier one: the file has a new size.
WriteData ==
    /\ ops < MaxQuotaOps
    /\ \E p \in writers, size \in QuotaSizes \ {0} :
        osFiles' = [osFiles EXCEPT ![p].size = size]
    /\ last' = [NoRequest EXCEPT !.op = "data"]
    /\ ops' = ops + 1
    /\ UNCHANGED <<pIn, pOut, handler, diskCache, serverJson, privileged, dirWalk, conns,
                 lockCalls, session, canCall, auth, hostKey,
                 quotaLog, writers, tenants>>

QuotaExpire ==
    /\ ops < MaxQuotaOps
    /\ \E k \in DOMAIN diskCache :
        diskCache' = [j \in DOMAIN diskCache \ {k} |-> diskCache[j]]
    /\ last' = [NoRequest EXCEPT !.op = "expire"]
    /\ ops' = ops + 1
    /\ UNCHANGED <<pIn, pOut, handler, osFiles, serverJson, privileged, dirWalk, conns,
                 lockCalls, session, canCall, auth, hostKey,
                 quotaLog, writers, tenants>>

QuotaNext ==
    \/ QuotaWrite
    \/ WriteData
    \/ QuotaExpire

SpecQuota == QuotaInit /\ [][QuotaNext]_vars

\* The quota check ran in the last call.
QuotaChecked == last.op = "Filewrite" /\ last.quota # "none"

\* The limit and the used bytes the check of the last call worked with: after
\* the call they are the tenant's two entries of the cache.
LimitEntry == CacheGet(diskCache, DiskKey(handler.UUID))
UsedEntry == CacheGet(diskCache, UsedKey(handler.UUID))

\* C6: hasSpace answers true when the disk check is disabled, when the
\* configuration had to be read and could not be, when the limit is 0 or
\* negative, or when the used bytes divided by 1048576 (whole MiB) are at most
\* the limit; in every other case it answers false. A limit that could be
\* read is in the cache after the call, and with a positive limit so are the
\* used bytes.
C6_HasSpaceTruth ==
    QuotaChecked =>
        /\ (last.quota = "allowed") <=>
              \/ handler.DisableDiskCheck
              \/ ~LimitEntry.exists /\ ~serverJson.readable
              \/ LimitEntry.exists /\ LimitEntry.x <= 0
              \/ /\ LimitEntry.exists
                 /\ UsedEntry.exists
                 /\ UsedEntry.x \div MiB <= LimitEntry.x
        /\ ~handler.DisableDiskCheck =>
              /\ LimitEntry.exists <=> serverJson.readable
              /\ (LimitEntry.exists /\ LimitEntry.x > 0) => UsedEntry.exists
        /\ last.quota = "denied" => last.result = "Failure"

\* A write refused with two MiB used of a limit of one.
C6_Witness ==
    /\ QuotaChecked
    /\ last.quota = "denied"
    /\ last.result = "Failure"
    /\ LimitEntry.x = 1
    /\ UsedEntry.x = 2 * MiB

\* C7: with a positive limit of L MiB the quota check allows a Filewrite when
\* the used bytes are at most L * 1048576 and refuses it with Failure when they
\* are more, be it by one byte.
C7_DeniedOneByteOver ==
    (QuotaChecked /\ ~handler.DisableDiskCheck /\ LimitEntry.exists /\ LimitEntry.x > 0)
        => /\ (last.quota = "allowed") <=> (UsedEntry.x <= LimitEntry.x * MiB)
           /\ last.quota = "denied" => last.result = "Failure"

-----------------------------------------------------------------------------
\* SpecDirSize: one call of directorySize on the tenant's directory, step by
\* step. Every directory below the root has the call made for it and the
\* worker goroutine that makes it. The accumulator of a call is read and
\* written by its loop and by its workers without synchronisation: an addition
\* is a load followed, later, by a store.

\* A directory with a file in each of two subdirectories around a file; a file
\* before and one after a subdirectory that holds a subdirectory and a file.
WalkTreeA ==
    LET root == TenantRoot(T1)
    IN  (Slash :> DirNode(ModeDir, "root"))
        @@ (DataRoot :> DirNode(ModeDir, "root"))
        @@ (root :> DirNode(ModeDir, SftpUser))
        @@ (Child(root, <<"a">>) :> DirNode(ModeDir, SftpUser))
        @@ (Child(Child(root, <<"a">>), <<"a">>) :> FileNode(1, ModeFile, SftpUser))
        @@ (Child(root, <<"b">>) :> FileNode(2, ModeFile, SftpUser))
        @@ (Child(root, <<"c">>) :> DirNode(ModeDir, SftpUser))
        @@ (Child(Child(root, <<"c">>), <<"a">>) :> FileNode(4, ModeFile, SftpUser))

WalkTreeB ==
    LET root == TenantRoot(T1)
        b == Child(root, <<"b">>)
    IN  (Slash :> DirNode(ModeDir, "root"))
        @@ (DataRoot :> DirNode(ModeDir, "root"))
        @@ (root :> DirNode(ModeDir, SftpUser))
        @@ (Child(root, <<"a">>) :> FileNode(1, ModeFile, SftpUser))
        @@ (b :> DirNode(ModeDir, SftpUser))
        @@ (Child(b, <<"a">>) :> DirNode(ModeDir, SftpUser))
        @@ (Child(Child(b, <<"a">>), <<"a">>) :> FileNode(2, ModeFile, SftpUser))
        @@ (Child(b, <<"b">>) :> FileNode(4, ModeFile, SftpUser))
        @@ (Child(root, <<"c">>) :> FileNode(8, ModeFile, SftpUser))

WalkTrees == {WalkTreeA, WalkTreeB, QuotaTree(1)}

\* The directories the walk of dir visits.
WalkDirs(files, dir) ==
    {p \in DOMAIN files : (p = dir \/ Below(dir, p)) /\ IsDirAt(files, p)}

\* files, err := ioutil.ReadDir(dir): the entries in the order of the loop.
Entries(files, dir) == SortByName(ReadDir(files, dir).entries)

\* A directory whose call has not been made and whose worker has not been started.
Unvisited ==
    [fpc |-> "idle", idx |-> 0, size |-> 0, reg |-> 0, ret |-> 0,
     wpc |-> "none", wreg |-> 0, wloaded |-> FALSE]

\* The call directorySize(dir) begins: ReadDir; an error returns 0 at once.
Called(files, dir, w) ==
    IF ReadDir(files, dir).err # ""
    THEN [w EXCEPT !.fpc = "done", !.ret = 0]
    ELSE [w EXCEPT !.fpc = "loop", !.idx = 1, !.size = 0]

DirSizeInit ==
    /\ pIn = NoCall
    /\ pOut = PathError
    /\ handler = NewHandler(T1, <<"*">>, FALSE, FALSE)
    /\ osFiles \in WalkTrees
    /\ diskCache = EmptyCache
    /\ serverJson = JsonDisk(1)
    /\ privileged = TRUE
    /\ last = NoRequest
    /\ ops = 0
    /\ dirWalk = [d \in WalkDirs(osFiles, handler.Directory) |->
                  IF d = handler.Directory
                  THEN Called(osFiles, d, Unvisited)
                  ELSE Unvisited]
    /\ conns = 0
    /\ lockCalls = 0
    /\ session = 0
    /\ canCall = 0
    /\ auth = 0
    /\ hostKey = 0
    /\ quotaLog = 0
    /\ writers = 0
    /\ tenants = 0

WalkUnchanged ==
    UNCHANGED <<pIn, pOut, handler, osFiles, diskCache, serverJson, privileged, last,
                ops, conns, lockCalls, session, canCall, auth, hostKey,
                 quotaLog, writers, tenants>>

\* The loop reaches a directory: wg.Add(1) and a worker is started for it.
LoopDir ==
    /\ \E d \in DOMAIN dirWalk :
        LET es == Entries(osFiles, d)
        IN  /\ dirWalk[d].fpc = "loop"
            /\ dirWalk[d].idx <= Len(es)
            /\ IsDirAt(osFiles, es[dirWalk[d].idx])
            /\ dirWalk' = [dirWalk EXCEPT ![d].idx = @ + 1,
                                    ![es[dirWalk[d].idx]].wpc = "started"]
    /\ WalkUnchanged

\* The loop reaches a file: size += f.Size() loads the accumulator...
LoopFileLoad ==
    /\ \E d \in DOMAIN dirWalk :
        LET es == Entries(osFiles, d)
        IN  /\ dirWalk[d].fpc = "loop"
            /\ dirWalk[d].idx <= Len(es)
            /\ ~IsDirAt(osFiles, es[dirWalk[d].idx])
            /\ dirWalk' = [dirWalk EXCEPT ![d].reg = dirWalk[d].size, ![d].fpc = "store"]
    /\ WalkUnchanged

\* ... and stores the sum.
LoopFileStore ==
    /\ \E d \in DOMAIN dirWalk :
        LET es == Entries(osFiles, d)
        IN  /\ dirWalk[d].fpc = "store"
            /\ dirWalk' = [dirWalk EXCEPT
                            ![d].size = dirWalk[d].reg + osFiles[es[dirWalk[d].idx]].size,
                            ![d].idx = @ + 1,
                            ![d].fpc = "loop"]
    /\ WalkUnchanged

\* The loop is over: the call goes to wg.Wait().
LoopEnd ==
    /\ \E d \in DOMAIN dirWalk :
        /\ dirWalk[d].fpc = "loop"
        /\ dirWalk[d].idx > Len(Entries(osFiles, d))
        /\ dirWalk' = [dirWalk EXCEPT ![d].fpc = "wait"]
    /\ WalkUnchanged

\* wg.Wait() returns when every worker of the call has finished; the call
\* returns the accumulator.
WaitReturn ==
    /\ \E d \in DOMAIN dirWalk :
        /\ dirWalk[d].fpc = "wait"
        /\ \A e \in DOMAIN dirWalk : Dir(e) = d => dirWalk[e].wpc = "finished"
        /\ dirWalk' = [dirWalk EXCEPT ![d].fpc = "done", ![d].ret = dirWalk[d].size]
    /\ WalkUnchanged

\* A worker's size += fs.directorySize(p) loads the accumulator of the call
\* that started it, before it makes its own call or after that has returned.
WorkerLoad ==
    /\ \E e \in DOMAIN dirWalk :
        /\ dirWalk[e].wpc = "started"
        /\ ~dirWalk[e].wloaded
        /\ dirWalk[e].fpc \in {"idle", "done"}
        /\ dirWalk' = [dirWalk EXCEPT ![e].wreg = dirWalk[Dir(e)].size, ![e].wloaded = TRUE]
    /\ WalkUnchanged

\* A worker calls directorySize on its directory.
WorkerCall ==
    /\ \E e \in DOMAIN dirWalk :
        /\ dirWalk[e].wpc = "started"
        /\ dirWalk[e].fpc = "idle"
        /\ dirWalk' = [dirWalk EXCEPT ![e] = Called(osFiles, e, dirWalk[e])]
    /\ WalkUnchanged

\* A worker stores the sum of what it loaded and what its call returned, and
\* finishes: wg.Done().
WorkerStore ==
    /\ \E e \in DOMAIN dirWalk :
        /\ dirWalk[e].wpc = "started"
        /\ dirWalk[e].wloaded
        /\ dirWalk[e].fpc = "done"
        /\ dirWalk' = [dirWalk EXCEPT ![Dir(e)].size = dirWalk[e].wreg + dirWalk[e].ret,
                                ![e].wpc = "finished"]
    /\ WalkUnchanged

DirSizeNext ==
    \/ LoopDir
    \/ LoopFileLoad
    \/ LoopFileStore
    \/ LoopEnd
    \/ WaitReturn
    \/ WorkerLoad
    \/ WorkerCall
    \/ WorkerStore

SpecDirSize == DirSizeInit /\ [][DirSizeNext]_vars

\* The call on the tenant's directory has returned.
WalkReturned == dirWalk[handler.Directory].fpc = "done"

\* C8: whatever the interleaving of the workers, directorySize returns the
\* total of a sequential walk, and it returns only after all the workers it
\* started have finished.
C8_ConcurrentEqualsSequential ==
    WalkReturned =>
        /\ dirWalk[handler.Directory].ret = SequentialSize(osFiles, handler.Directory)
        /\ \A e \in DOMAIN dirWalk : dirWalk[e].wpc \in {"none", "finished"}

\* The value a returned call gives is one of those the operator directorySize
\* gives for the tree, and every call that has returned has no worker left.
WalkReturnsModelledValue ==
    /\ WalkReturned =>
            dirWalk[handler.Directory].ret \in directorySize(osFiles, handler.Directory)
    /\ \A d \in DOMAIN dirWalk :
            dirWalk[d].fpc = "done" =>
                \A e \in DOMAIN dirWalk : Dir(e) = d => dirWalk[e].wpc = "finished"

-----------------------------------------------------------------------------
\* SpecConn: the acceptor. The listener hands every inbound connection to a
\* worker of its own, which performs the SSH handshake (the peer's password
\* attempts are put to the credential oracle), then serves the channels the
\* peer opens, one after the other.

\* How many connections the listener accepts.
MaxConns == 2

\* ssh.ServerConfig.MaxAuthTries
MaxAuthTries == 6

Conns == 1..MaxConns

\* What the oracle can answer to a login: 200 with a body, 200 with a body
\* that names no server, 404, 400, another status, and no answer at all
\* (status 0: the request failed in transport).
OracleAnswers ==
    { [status |-> 200, server |-> T1, permissions |-> <<"*">>],
      [status |-> 200, server |-> <<>>, permissions |-> <<>>],
      [status |-> 404, server |-> <<>>, permissions |-> <<>>],
      [status |-> 400, server |-> <<>>, permissions |-> <<>>],
      [status |-> 500, server |-> <<>>, permissions |-> <<>>],
      [status |-> 0, server |-> <<>>, permissions |-> <<>>] }

\* The credential validator: the oracle's answer as a response or an error.
CredentialValidator(answer) ==
    LET none == [server |-> <<>>, permissions |-> <<>>]
    IN  CASE answer.status = 0 ->
                [err |-> "transport error", resp |-> none]
          [] answer.status = 200 ->
                [err |-> "",
                 resp |-> [server |-> answer.server, permissions |-> answer.permissions]]
          [] answer.status = 404 ->
                [err |-> "bad credentials provided", resp |-> none]
          [] answer.status = 400 ->
                [err |-> "server in bad state, SFTP denied", resp |-> none]
          [] OTHER ->
                [err |-> "error response from server", resp |-> none]

\* strings.Join(tags, ","): the tags with a "," between them.
RECURSIVE JoinComma(_)
JoinComma(tags) ==
    IF tags = <<>> THEN <<>>
    ELSE IF Len(tags) = 1 THEN IF Head(tags) = "" THEN <<>> ELSE <<Head(tags)>>
    ELSE (IF Head(tags) = "" THEN <<>> ELSE <<Head(tags)>>)
         \o <<",">> \o JoinComma(Tail(tags))

\* strings.Split(s, ","): the pieces between the commas, empty ones kept; the
\* empty string gives one empty piece.
RECURSIVE SplitComma(_)
SplitComma(s) ==
    IF s = <<>> THEN <<"">>
    ELSE IF Head(s) = "," THEN <<"">> \o SplitComma(Tail(s))
    ELSE IF Len(s) = 1 THEN <<Head(s)>>
    ELSE <<Head(s)>> \o SplitComma(Tail(Tail(s)))

NoExtensions == [uuid |-> <<>>, user |-> "", permissions |-> <<>>]

\* PasswordCallback with every error of the validator ignored.
PasswordCallbackTrusting(user, answer) ==
    LET r == CredentialValidator(answer)
    IN  [err |-> "",
         ext |-> [uuid |-> r.resp.server, user |-> user,
                  permissions |-> JoinComma(r.resp.permissions)]]

\* A PasswordCallback that remembers the permissions it granted and grants
\* them again without looking at the oracle's answer.
PasswordCallbackCaching(user, answer) ==
    LET r == CredentialValidator(answer)
    IN  IF auth.attempts > 0 /\ auth.err = "" THEN [err |-> "", ext |-> auth.ext]
        ELSE IF r.err # "" THEN [err |-> r.err, ext |-> NoExtensions]
        ELSE [err |-> "",
              ext |-> [uuid |-> r.resp.server, user |-> user,
                       permissions |-> JoinComma(r.resp.permissions)]]

\* ssh.ServerConfig.PasswordCallback: the validator's error as it is, or the
\* permissions of the connection.
PasswordCallback(user, answer) ==
    LET r == CredentialValidator(answer)
    IN  IF r.err # "" THEN [err |-> r.err, ext |-> NoExtensions]
        ELSE [err |-> "",
              ext |-> [uuid |-> r.resp.server, user |-> user,
                       permissions |-> JoinComma(r.resp.permissions)]]

\* createHandler(perm), with the read-only mode and the disk check's switch off.
createHandler(ext) == NewHandler(ext.uuid, SplitComma(ext.permissions), FALSE, FALSE)

\* No handler has been created.
NoHandler == NewHandler(<<>>, <<>>, FALSE, FALSE)

\* A connection the listener has not accepted yet. Of a connection the model
\* keeps: how many attempts its handshake has refused (a handshake that
\* succeeds leaves no count), the error the callback returned to the last
\* attempt, whether the oracle answered 200, the permissions of the
\* connection, and what its worker has done: rejected or accepted a channel,
\* built a handler, served a request.
NoConn ==
    [state |-> "none", tries |-> 0, lastErr |-> "",
     answered200 |-> FALSE, ext |-> NoExtensions, rejected |-> FALSE,
     accepted |-> FALSE, built |-> FALSE, fs |-> NoHandler, serving |-> FALSE,
     served |-> FALSE]

ConnInit ==
    /\ pIn = NoCall
    /\ pOut = PathError
    /\ handler = 0
    /\ osFiles = 0
    /\ diskCache = 0
    /\ serverJson = 0
    /\ privileged = 0
    /\ last = 0
    /\ ops = 0
    /\ dirWalk = 0
    /\ conns = [c \in Conns |-> NoConn]
    /\ lockCalls = 0
    /\ session = 0
    /\ canCall = 0
    /\ auth = 0
    /\ hostKey = 0
    /\ quotaLog = 0
    /\ writers = 0
    /\ tenants = 0

ConnUnchanged ==
    UNCHANGED <<pIn, pOut, handler, osFiles, diskCache, serverJson, privileged, last,
                ops, dirWalk, lockCalls, session, canCall, auth, hostKey,
                 quotaLog, writers, tenants>>

\* listener.Accept() and go c.AcceptInboundConnection(conn, ...): the worker
\* begins the handshake.
Accept ==
    /\ \E c \in Conns :
        /\ conns[c].state = "none"
        /\ conns' = [conns EXCEPT ![c].state = "handshake"]
    /\ ConnUnchanged

\* The peer offers a password during the handshake. The callback's answer
\* decides: the handshake is over and the connection is open, or the attempt
\* is counted and refused, and after MaxAuthTries refusals the peer is
\* disconnected, ssh.NewServerConn returns an error and the worker returns,
\* closing the connection.
PasswordAttempt ==
    /\ \E c \in Conns, answer \in OracleAnswers :
        LET r == PasswordCallback("u", answer)
            k == conns[c]
        IN  /\ k.state = "handshake"
            /\ conns' = [conns EXCEPT ![c] =
                  IF r.err = ""
                  THEN [k EXCEPT !.state = "open",
                                 !.tries = 0,
                                 !.lastErr = "",
                                 !.answered200 = answer.status = 200,
                                 !.ext = r.ext]
                  ELSE IF k.tries + 1 >= MaxAuthTries
                  THEN [k EXCEPT !.state = "closed",
                                 !.tries = @ + 1,
                                 !.lastErr = r.err]
                  ELSE [k EXCEPT !.tries = @ + 1,
                                 !.lastErr = r.err]]
    /\ ConnUnchanged

\* The handshake fails for another reason (the peer goes away, a protocol
\* error): ssh.NewServerConn returns an error and the worker returns.
HandshakeError ==
    /\ \E c \in Conns :
        /\ conns[c].state = "handshake"
        /\ conns' = [conns EXCEPT ![c].state = "closed"]
    /\ ConnUnchanged

\* The peer opens a channel of a type that is not "session": rejected.
RejectChannel ==
    /\ \E c \in Conns :
        /\ conns[c].state = "open"
        /\ ~conns[c].serving
        /\ conns' = [conns EXCEPT ![c].rejected = TRUE]
    /\ ConnUnchanged

\* The peer opens a session channel: it is accepted unless Accept fails, and
\* unless the connection has no uuid a handler is created and served.
SessionChannel ==
    /\ \E c \in Conns, acceptFails \in BOOLEAN :
        LET k == conns[c]
        IN  /\ k.state = "open"
            /\ ~k.serving
            /\ conns' = [conns EXCEPT ![c] =
                  IF acceptFails THEN k
                  ELSE IF k.ext.uuid = <<>>
                  THEN [k EXCEPT !.accepted = TRUE]
                  ELSE [k EXCEPT !.accepted = TRUE,
                                 !.built = TRUE,
                                 !.fs = createHandler(k.ext),
                                 !.serving = TRUE]]
    /\ ConnUnchanged

\* server.Serve() hands a request of the peer to the handler.
ServeRequest ==
    /\ \E c \in Conns :
        /\ conns[c].serving
        /\ conns' = [conns EXCEPT ![c].served = TRUE]
    /\ ConnUnchanged

\* server.Serve() returns: the worker is back in its loop over the channels.
ServeReturn ==
    /\ \E c \in Conns :
        /\ conns[c].serving
        /\ conns' = [conns EXCEPT ![c].serving = FALSE]
    /\ ConnUnchanged

\* The peer is gone: the loop over the channels ends and the worker returns.
Hangup ==
    /\ \E c \in Conns :
        /\ conns[c].state = "open"
        /\ ~conns[c].serving
        /\ conns' = [conns EXCEPT ![c].state = "closed"]
    /\ ConnUnchanged

ConnNext ==
    \/ Accept
    \/ PasswordAttempt
    \/ HandshakeError
    \/ RejectChannel
    \/ SessionChannel
    \/ ServeRequest
    \/ ServeReturn
    \/ Hangup

SpecConn == ConnInit /\ [][ConnNext]_vars

\* C9: on no connection is a channel accepted, a handler created or a request
\* served unless the oracle answered 200 to an attempt on that connection; a
\* connection whose last attempt was refused is in its handshake or closed,
\* with none of these done, and it is closed once MaxAuthTries were refused.
C9_NoServiceWithoutAuth ==
    \A c \in Conns :
        /\ (conns[c].accepted \/ conns[c].built \/ conns[c].serving
                \/ conns[c].served \/ conns[c].state = "open")
              => conns[c].answered200
        /\ conns[c].lastErr # ""
              => /\ conns[c].state \in {"handshake", "closed"}
                 /\ ~conns[c].accepted
                 /\ ~conns[c].built
        /\ conns[c].tries >= MaxAuthTries => conns[c].state = "closed"

\* A connection refused on a 404 and closed next to one that is being served.
C9_Witness ==
    /\ conns[1].state = "closed"
    /\ conns[1].lastErr = "bad credentials provided"
    /\ ~conns[1].accepted
    /\ conns[2].served
    /\ conns[2].answered200

-----------------------------------------------------------------------------
\* SpecLock: the workers of the protocol library call Fileread and Filewrite
\* of one handler concurrently. Both methods have a value receiver: a call
\* works on a copy of the FileSystem value, its sync.Mutex included, and
\* fs.lock.Lock() locks the mutex of the copy.

\* How many calls of one handler run at the same time.
MaxWorkers == 3

Workers == 1..MaxWorkers

LockMethods == {"Fileread", "Filewrite"}

\* A worker that is in no call; lock is the mutex of the receiver's copy.
IdleCall == [pc |-> "idle", method |-> "", lock |-> FALSE]

LockInit ==
    /\ pIn = NoCall
    /\ pOut = PathError
    /\ handler = 0
    /\ osFiles = 0
    /\ diskCache = 0
    /\ serverJson = 0
    /\ privileged = 0
    /\ last = 0
    /\ ops = 0
    /\ dirWalk = 0
    /\ conns = 0
    /\ lockCalls = [held |-> FALSE, calls |-> [w \in Workers |-> IdleCall]]
    /\ session = 0
    /\ canCall = 0
    /\ auth = 0
    /\ hostKey = 0
    /\ quotaLog = 0
    /\ writers = 0
    /\ tenants = 0

LockUnchanged ==
    UNCHANGED <<pathVars, handlerVars, walkVars, connVars, sessionVars, canVars,
                authVars, hostKeyVars, ttlVars, raceVars, tenantVars>>

\* A worker calls the method: the receiver is copied from the handler value,
\* and with it the state its mutex is in.
LockCall ==
    /\ \E w \in Workers, m \in LockMethods :
        /\ lockCalls.calls[w].pc = "idle"
        /\ lockCalls' = [lockCalls EXCEPT !.calls[w] =
                [pc |-> "checks", method |-> m, lock |-> lockCalls.held]]
    /\ LockUnchanged

\* A check before the lock turns the call down: the capability or the path in
\* Fileread; read-only, the path or the quota in Filewrite.
LockReturnEarly ==
    /\ \E w \in Workers :
        /\ lockCalls.calls[w].pc = "checks"
        /\ lockCalls' = [lockCalls EXCEPT !.calls[w] = IdleCall]
    /\ LockUnchanged

\* fs.lock.Lock(): waits until the mutex of the receiver is free, takes it.
LockAcquire ==
    /\ \E w \in Workers :
        /\ lockCalls.calls[w].pc = "checks"
        /\ ~lockCalls.calls[w].lock
        /\ lockCalls' = [lockCalls EXCEPT !.calls[w].pc = "stat",
                                          !.calls[w].lock = TRUE]
    /\ LockUnchanged

\* os.Stat(p): the call goes on to open or create, or returns on what it
\* found (NoSuchFile, PermissionDenied, Failure).
LockStat ==
    /\ \E w \in Workers, goesOn \in BOOLEAN :
        /\ lockCalls.calls[w].pc = "stat"
        /\ lockCalls' = [lockCalls EXCEPT !.calls[w].pc =
                IF goesOn THEN "open" ELSE "unlock"]
    /\ LockUnchanged

\* os.OpenFile of Fileread; os.MkdirAll, os.Create and os.Chown of Filewrite.
LockOpen ==
    /\ \E w \in Workers :
        /\ lockCalls.calls[w].pc = "open"
        /\ lockCalls' = [lockCalls EXCEPT !.calls[w].pc = "unlock"]
    /\ LockUnchanged

\* A return that leaves the mutex of the receiver as the call has it.
UnlockForgotten(call) == [pc |-> "idle", method |-> call.method, lock |-> call.lock]

\* defer fs.lock.Unlock(): on the return of the call the mutex of its receiver
\* is released. The worker keeps the name of the method it has returned from.
Unlock(call) == [pc |-> "idle", method |-> call.method, lock |-> FALSE]

\* The deferred fs.lock.Unlock() runs and the call returns.
LockRelease ==
    /\ \E w \in Workers :
        /\ lockCalls.calls[w].pc = "unlock"
        /\ lockCalls' = [lockCalls EXCEPT !.calls[w] = Unlock(lockCalls.calls[w])]
    /\ LockUnchanged

LockNext ==
    \/ LockCall
    \/ LockReturnEarly
    \/ LockAcquire
    \/ LockStat
    \/ LockOpen
    \/ LockRelease

SpecLock == LockInit /\ [][LockNext]_vars

\* The step a worker that is in a call takes next.
LockStep(w) ==
    /\ LockNext
    /\ lockCalls.calls[w].pc # "idle"
    /\ lockCalls'.calls[w] # lockCalls.calls[w]

\* SpecLock with the scheduler's guarantee: a goroutine that can run does.
SpecLockFair == SpecLock /\ \A w \in Workers : WF_vars(LockStep(w))

\* The call is between fs.lock.Lock() and the deferred fs.lock.Unlock().
InSection(call) == call.pc \in {"stat", "open", "unlock"}

\* C11: no two calls on the same handler are at the same time inside the
\* section between acquiring and releasing the handler's lock.
C11_OpenDecisionsSerialized ==
    \A w1, w2 \in Workers :
        w1 # w2 => ~(InSection(lockCalls.calls[w1]) /\ InSection(lockCalls.calls[w2]))

\* C31: a mutex is held by a call exactly between its fs.lock.Lock() and its
\* return, the handler's own mutex is never left held, and every call that
\* has come to the lock returns: none waits for the lock forever.
C31_LockReleasedOnReturn ==
    /\ [](/\ ~lockCalls.held
          /\ \A w \in Workers :
                lockCalls.calls[w].lock <=> InSection(lockCalls.calls[w]))
    /\ \A w \in Workers :
          (lockCalls.calls[w].pc = "checks") ~> (lockCalls.calls[w].pc = "idle")

\* A Filewrite and a Fileread have returned through the deferred unlock and
\* hold nothing, while a third call is inside its section.
C31_Witness ==
    /\ lockCalls.calls[1] = [pc |-> "idle", method |-> "Filewrite", lock |-> FALSE]
    /\ lockCalls.calls[2] = [pc |-> "idle", method |-> "Fileread", lock |-> FALSE]
    /\ lockCalls.calls[3].pc = "open"

-----------------------------------------------------------------------------
\* SpecSession: the worker of one connection (AcceptInboundConnection) with
\* its channels, the responder to the requests of an accepted channel, and
\* the two deferred closes.

ChannelTypes == {"session", "direct-tcpip", "x11"}

\* The number of channels the peer opens on one connection.
MaxChannels == 3

RequestTypes == {"subsystem", "pty-req", "shell", "exec", "env"}

\* The name of the subsystem, and request payloads as sequences of bytes: an
\* SSH string is a 4-byte length followed by its bytes.
SftpName == <<"s", "f", "t", "p">>

Payloads ==
    { <<>>,
      <<"0", "0">>,
      <<"0", "0", "0", "0">>,
      <<"0", "0", "0", "4">> \o SftpName,
      <<"9", "9", "9", "9">> \o SftpName,
      <<"0", "0", "0", "3", "s", "c", "p">>,
      <<"0", "0", "0", "5">> \o SftpName \o <<"x">>,
      <<"0", "0", "0", "3", "s", "f", "t">> }

\* The worker accepts a channel of any type.
AcceptsTypeAny(type) == TRUE

\* newChannel.ChannelType() != "session" is rejected, "session" is accepted.
AcceptsType(type) == type = "session"

\* Every connection counts as one of a tenant.
HasTenantAlways(uuid) == TRUE

\* sconn.Permissions.Extensions["uuid"] == "" makes the worker skip the channel.
HasTenant(uuid) == uuid # <<>>

\* The responder's answer to a request, for one that wants a reply: "true"
\* or "false" is what req.Reply sends; "panic" is the slice expression
\* req.Payload[4:] on a payload shorter than 4 bytes, which is evaluated for
\* the type subsystem only and ends the process before any reply.
Respond(type, payload) ==
    IF type = "subsystem"
    THEN IF Len(payload) < 4 THEN "panic"
         ELSE IF SubSeq(payload, 5, Len(payload)) = SftpName THEN "true"
         ELSE "false"
    ELSE "false"

NoChannel ==
    [type |-> "", outcome |-> "none", reason |-> "", responder |-> FALSE,
     negotiated |-> FALSE, built |-> FALSE, served |-> FALSE]

\* No request has been received. A request is kept with its type, its
\* payload, the reply to it and whether it came on a channel accepted before
\* the one in hand.
NoChannelRequest ==
    [type |-> "", payload |-> <<>>, reply |-> "none", earlier |-> FALSE]

\* The worker returns without closing the SSH connection.
WorkerReturnLeaking(s) ==
    [s EXCEPT !.pc = "exited", !.tcp = "closed", !.chan.responder = FALSE,
              !.live = 0]

\* The return of the worker after a handshake that succeeded: the deferred
\* sconn.Close() and conn.Close() run.
WorkerReturn(s) ==
    [s EXCEPT !.pc = "exited", !.ssh = "closed", !.tcp = "closed",
              !.chan.responder = FALSE, !.live = 0]

\* The protocol server of the channel is started on a goroutine of its own,
\* and the worker goes on with its loop.
ServeCallDetached(s) ==
    [s EXCEPT !.pc = "loop", !.chan.built = TRUE, !.chan.served = TRUE,
              !.active = @ + 1]

\* createHandler, sftp.NewRequestServer and the call server.Serve(), made on
\* the goroutine of the worker itself: the worker is inside the call until it
\* returns.
ServeCall(s) ==
    [s EXCEPT !.pc = "serving", !.chan.built = TRUE, !.chan.served = TRUE,
              !.active = @ + 1]

SessionInit ==
    /\ pIn = NoCall
    /\ pOut = PathError
    /\ handler = 0
    /\ osFiles = 0
    /\ diskCache = 0
    /\ serverJson = 0
    /\ privileged = 0
    /\ last = 0
    /\ ops = 0
    /\ dirWalk = 0
    /\ conns = 0
    /\ lockCalls = 0
    /\ session = [pc |-> "handshake", crashed |-> FALSE, tcp |-> "open",
                  ssh |-> "none", handshakeOk |-> FALSE, uuid |-> <<>>,
                  chan |-> NoChannel, req |-> NoChannelRequest,
                  opened |-> 0, decided |-> 0, active |-> 0, live |-> 0]
    /\ canCall = 0
    /\ auth = 0
    /\ hostKey = 0
    /\ quotaLog = 0
    /\ writers = 0
    /\ tenants = 0

SessionUnchanged ==
    UNCHANGED <<pathVars, handlerVars, walkVars, connVars, lockVars, canVars,
                authVars, hostKeyVars, ttlVars, raceVars, tenantVars>>

\* ssh.NewServerConn returns an error: the worker returns, and the deferred
\* conn.Close() runs.
SessHandshakeFail ==
    /\ session.pc = "handshake"
    /\ ~session.crashed
    /\ session' = [session EXCEPT !.pc = "exited", !.tcp = "closed"]
    /\ SessionUnchanged

\* ssh.NewServerConn returns the connection of an authenticated principal,
\* with the uuid extension the callback set: the tenant's, or empty.
SessHandshakeOk ==
    /\ session.pc = "handshake"
    /\ ~session.crashed
    /\ \E uuid \in {<<>>, T1} :
        session' = [session EXCEPT !.pc = "loop", !.ssh = "open",
                                   !.handshakeOk = TRUE, !.uuid = uuid]
    /\ SessionUnchanged

\* The peer opens a channel on the connection: it waits in chans until the
\* loop of the worker receives it.
SessPeerOpens ==
    /\ session.pc \in {"loop", "accepted", "serving"}
    /\ ~session.crashed
    /\ session.opened < MaxChannels
    /\ session' = [session EXCEPT !.opened = @ + 1]
    /\ SessionUnchanged

\* The loop receives a channel the peer opened: rejected unless of type
\* session, else accepted (unless Accept fails) and a responder is started for
\* its requests. The responder of the channel that was in hand until now goes
\* on with the requests of its channel.
SessNewChannel ==
    /\ session.pc = "loop"
    /\ ~session.crashed
    /\ session.decided < session.opened
    /\ \E type \in ChannelTypes, acceptFails \in BOOLEAN :
        session' = [session EXCEPT
            !.decided = @ + 1,
            !.live = IF session.chan.responder THEN @ + 1 ELSE @,
            !.pc = IF AcceptsType(type) /\ ~acceptFails THEN "accepted" ELSE "loop",
            !.chan = IF ~AcceptsType(type)
                     THEN [NoChannel EXCEPT !.type = type,
                                            !.outcome = "rejected",
                                            !.reason = "UnknownChannelType"]
                     ELSE IF acceptFails
                     THEN [NoChannel EXCEPT !.type = type,
                                            !.outcome = "acceptFailed"]
                     ELSE [NoChannel EXCEPT !.type = type,
                                            !.outcome = "accepted",
                                            !.responder = TRUE]]
    /\ SessionUnchanged

\* After the responder is started: the channel is skipped when the
\* connection has no uuid, else the handler is created and handed with the
\* channel to the protocol library, and server.Serve() runs.
SessStartServe ==
    /\ session.pc = "accepted"
    /\ ~session.crashed
    /\ session' = IF HasTenant(session.uuid)
                  THEN ServeCall(session)
                  ELSE [session EXCEPT !.pc = "loop"]
    /\ SessionUnchanged

\* A responder receives a request of the peer on its channel: the responder
\* of the channel in hand, or the one of a channel accepted before it, which
\* runs until its channel is closed.
SessRequest ==
    /\ ~session.crashed
    /\ \E earlier \in BOOLEAN, type \in RequestTypes, payload \in Payloads :
        LET reply == Respond(type, payload)
        IN  /\ IF earlier THEN session.live > 0 ELSE session.chan.responder
            /\ session' = [session EXCEPT
                    !.req = [type |-> type, payload |-> payload, reply |-> reply,
                             earlier |-> earlier],
                    !.crashed = reply = "panic",
                    !.chan.negotiated = @ \/ (~earlier /\ reply = "true")]
    /\ SessionUnchanged

\* The peer closes a channel that is not being served: the channel of its
\* requests is closed and the responder ends.
SessPeerCloses ==
    /\ ~session.crashed
    /\ \/ /\ session.live > 0
          /\ session' = [session EXCEPT !.live = @ - 1]
       \/ /\ session.pc = "loop"
          /\ session.chan.responder
          /\ session' = [session EXCEPT !.chan.responder = FALSE]
    /\ SessionUnchanged

\* server.Serve() returns; on io.EOF server.Close() closes the channel, which
\* ends its responder. The worker is back at the loop over the channels.
SessServeReturn ==
    /\ session.pc = "serving"
    /\ ~session.crashed
    /\ \E eof \in BOOLEAN :
        session' = [session EXCEPT !.pc = "loop",
                                   !.active = @ - 1,
                                   !.chan.responder = @ /\ ~eof]
    /\ SessionUnchanged

\* The peer is gone and the channel of new channels is closed: the loop ends
\* and the worker returns.
SessChannelsEnd ==
    /\ session.pc = "loop"
    /\ ~session.crashed
    /\ session' = WorkerReturn(session)
    /\ SessionUnchanged

SessionNext ==
    \/ SessHandshakeFail
    \/ SessHandshakeOk
    \/ SessPeerOpens
    \/ SessNewChannel
    \/ SessStartServe
    \/ SessRequest
    \/ SessPeerCloses
    \/ SessServeReturn
    \/ SessChannelsEnd

SpecSession == SessionInit /\ [][SessionNext]_vars

\* C12: a channel is handed to the protocol library only after a subsystem
\* request with the payload sftp has been answered positively on it.
C12_ServingOnlyAfterSubsystem ==
    session.chan.served => session.chan.negotiated

\* C13: when the worker has exited, the TCP connection is closed, and the SSH
\* server connection is closed if the handshake had succeeded.
C13_ClosedOnWorkerExit ==
    session.pc = "exited" =>
        /\ session.tcp = "closed"
        /\ session.handshakeOk => session.ssh = "closed"

\* The worker has exited from the loop over the channels after it had
\* served a channel.
C13_Witness ==
    /\ session.pc = "exited"
    /\ session.handshakeOk
    /\ session.chan.served
    /\ session.ssh = "closed"
    /\ session.tcp = "closed"

\* C16: on a connection whose uuid extension is empty no handler is
\* constructed for any channel and no channel is handed to the protocol
\* library.
C16_NoHandlerWithoutTenant ==
    (session.handshakeOk /\ session.uuid = <<>>) =>
        /\ ~session.chan.built
        /\ ~session.chan.served
        /\ session.pc # "serving"

\* A session channel of a connection without uuid was accepted and skipped:
\* the worker is back at the loop.
C16_Witness ==
    /\ session.handshakeOk
    /\ session.uuid = <<>>
    /\ session.chan.outcome = "accepted"
    /\ session.pc = "loop"
    /\ ~session.chan.built

\* C17: a channel is accepted only if its type is session; a new channel of
\* another type is rejected with UnknownChannelType, gets neither a responder
\* nor a handler, and the worker is at the loop for the next channel.
C17_OnlySessionChannels ==
    [][ (session'.chan # session.chan /\ session.pc = "loop") =>
          IF session'.chan.type = "session"
          THEN session'.chan.outcome \in {"accepted", "acceptFailed"}
          ELSE /\ session'.chan.outcome = "rejected"
               /\ session'.chan.reason = "UnknownChannelType"
               /\ ~session'.chan.responder
               /\ ~session'.chan.built
               /\ ~session'.chan.served
               /\ session'.pc = "loop" ]_vars

\* A direct-tcpip channel was rejected and the worker is at the loop.
C17_Witness ==
    /\ session.chan.type = "direct-tcpip"
    /\ session.chan.outcome = "rejected"
    /\ session.chan.reason = "UnknownChannelType"
    /\ session.pc = "loop"

\* C18: every request the responder received has been replied to, positively
\* if and only if its type is subsystem and its payload after the first four
\* bytes is sftp, negatively otherwise, whatever the length of the payload.
C18_EveryRequestReplied ==
    session.req.type # "" =>
        session.req.reply =
            IF /\ session.req.type = "subsystem"
               /\ Len(session.req.payload) >= 4
               /\ SubSeq(session.req.payload, 5, Len(session.req.payload)) = SftpName
            THEN "true"
            ELSE "false"

\* C37: on one connection the protocol server of at most one channel is
\* running at a time, and it is running exactly while the worker is inside
\* server.Serve(); while it runs, no channel the peer has opened is accepted
\* or rejected, and the outcome of the channel in hand does not change.
C37_OneChannelServing ==
    /\ [](/\ session.active <= 1
          /\ session.active = 1 <=> session.pc = "serving")
    /\ [][ session.pc = "serving" /\ ~session.crashed =>
              \/ session'.pc = "loop" /\ session'.active = 0
              \/ /\ session'.pc = "serving"
                 /\ session'.decided = session.decided
                 /\ session'.chan.type = session.chan.type
                 /\ session'.chan.outcome = session.chan.outcome ]_vars

\* A second channel is being served, after the first one's serving ended,
\* while a third one the peer has opened waits.
C37_Witness ==
    /\ session.pc = "serving"
    /\ session.active = 1
    /\ session.decided = 2
    /\ session.opened = 3

-----------------------------------------------------------------------------
\* SpecCan: can applied to permission lists and tags.

\* Longest permission list given to can in SpecCan.
MaxPerms == 2

\* Tags: the wildcard, two tags the handler checks, an unknown tag and the
\* empty tag that an empty list of the oracle arrives as.
CanTags == {"*", "edit-files", "list-files", "bogus", ""}

RECURSIVE TagLists(_)
TagLists(n) ==
    IF n = 0 THEN {<<>>}
    ELSE LET shorter == TagLists(n - 1)
         IN  shorter \cup {Append(l, t) : l \in shorter, t \in CanTags}

NoCanCall == [list |-> <<>>, tag |-> "", called |-> FALSE, result |-> FALSE]

CanInit ==
    /\ pIn = NoCall
    /\ pOut = PathError
    /\ handler = 0
    /\ osFiles = 0
    /\ diskCache = 0
    /\ serverJson = 0
    /\ privileged = 0
    /\ last = 0
    /\ ops = 0
    /\ dirWalk = 0
    /\ conns = 0
    /\ lockCalls = 0
    /\ session = 0
    /\ canCall = NoCanCall
    /\ auth = 0
    /\ hostKey = 0
    /\ quotaLog = 0
    /\ writers = 0
    /\ tenants = 0

CanCheck ==
    /\ ~canCall.called
    /\ \E list \in TagLists(MaxPerms), tag \in CanTags :
        canCall' = [list |-> list, tag |-> tag, called |-> TRUE,
                    result |-> can([Permissions |-> list], tag)]
    /\ UNCHANGED <<pathVars, handlerVars, walkVars, connVars, lockVars, sessionVars,
                authVars, hostKeyVars, ttlVars, raceVars, tenantVars>>

CanNext == CanCheck

SpecCan == CanInit /\ [][CanNext]_vars

\* The tags of a list, as a set.
TagsOf(list) == {list[i] : i \in 1..Len(list)}

\* C14: can answers true if and only if the list is exactly <<"*">> or the
\* tag is an element of the list; in particular a list that holds "*" next
\* to other tags grants the tags it lists and no other.
C14_CanIffWildcardOrListed ==
    canCall.called =>
        /\ canCall.result <=>
                (canCall.list = <<"*">> \/ canCall.tag \in TagsOf(canCall.list))
        /\ (Len(canCall.list) > 1 /\ canCall.tag \notin TagsOf(canCall.list))
                => ~canCall.result

\* The wildcard next to edit-files does not grant list-files.
C14_Witness ==
    /\ canCall.called
    /\ canCall.list = <<"*", "edit-files">>
    /\ canCall.tag = "list-files"
    /\ ~canCall.result

-----------------------------------------------------------------------------
\* SpecAuth: the password attempts made with one credential, on any
\* connections, while the oracle's answer for the credential changes.

\* How many password attempts one behaviour of SpecAuth makes.
MaxLogins == 2

\* How many requests of the session one behaviour of SpecPrincipal serves.
MaxServed == 2

\* What the oracle can answer for the credential: 200 with the tenant and any
\* permission list, 200 with a body that names no server, and the refusals.
AuthAnswers ==
    { [status |-> 200, server |-> T1, permissions |-> l] :
        l \in { t \in TagLists(MaxPerms) :
                  \A i \in DOMAIN t : t[i] \in {"*", "edit-files", ""} } }
    \cup { a \in OracleAnswers : a.status # 200 \/ a.server = <<>> }

\* No attempt has been made.
NoAttempt == [status |-> -1, server |-> <<>>, permissions |-> <<>>]

\* What the oracle answers while a session is served: the credential of the
\* owner, of a sub-user who may read, of a sub-user without any permission
\* and of the owner of the other tenant, a revoked credential and a server
\* in a bad state.
PrincipalAnswers ==
    { [status |-> 200, server |-> T1, permissions |-> <<"*">>],
      [status |-> 200, server |-> T1, permissions |-> <<"edit-files">>],
      [status |-> 200, server |-> T1, permissions |-> <<>>],
      [status |-> 200, server |-> T11, permissions |-> <<"*">>],
      [status |-> 404, server |-> <<>>, permissions |-> <<>>],
      [status |-> 400, server |-> <<>>, permissions |-> <<>>] }

\* The requests of the session: a read, writes of a file and of an absent
\* path, a change of mode, a new directory, a removal and a stat.
ServedCalls ==
    { [op |-> "Fileread", req |-> Request("Get", <<"/", "b">>)],
      [op |-> "Filewrite", req |-> Request("Put", <<"/", "b">>)],
      [op |-> "Filewrite", req |-> Request("Put", <<"/", "c">>)],
      [op |-> "Filecmd", req |-> Request("Setstat", <<"/", "b">>)],
      [op |-> "Filecmd", req |-> Request("Mkdir", <<"/", "c">>)],
      [op |-> "Filecmd", req |-> Request("Remove", <<"/", "b">>)],
      [op |-> "Filelist", req |-> Request("Stat", <<"/", "b">>)] }

\* The request server hands a request to the method of the Handlers value
\* that serves it.
ServeRequestBy(fs, files, cache, json, call, walk, permitted) ==
    CASE call.op = "Fileread" -> Fileread(fs, files, cache, call.req)
      [] call.op = "Filewrite" ->
            Filewrite(fs, files, cache, json, call.req, walk, permitted)
      [] call.op = "Filecmd" -> Filecmd(fs, files, cache, call.req, permitted)
      [] call.op = "Filelist" -> Filelist(fs, files, cache, call.req)

AuthInitWith(answers) ==
    /\ pIn = 0
    /\ pOut = 0
    /\ handler = NoHandler
    /\ osFiles = InitTree
    /\ diskCache = EmptyCache
    /\ serverJson = JsonDisk(3)
    /\ privileged = TRUE
    /\ last = 0
    /\ ops = 0
    /\ dirWalk = 0
    /\ conns = 0
    /\ lockCalls = 0
    /\ session = 0
    /\ canCall = 0
    /\ hostKey = 0
    /\ quotaLog = 0
    /\ writers = 0
    /\ tenants = 0
    /\ auth \in { [oracle |-> a, attempts |-> 0, calls |-> 0, asked |-> NoAttempt,
                    err |-> "", ext |-> NoExtensions, fs |-> NoHandler,
                    granted |-> NoExtensions]
                  : a \in answers }

AuthInit == AuthInitWith(AuthAnswers)

AuthUnchanged ==
    UNCHANGED <<pathVars, serverJson, privileged, last, walkVars, connVars, lockVars,
                sessionVars, canVars, hostKeyVars, ttlVars, raceVars, tenantVars>>

\* The panel changes what the oracle answers for the credential: it revokes
\* it, restores it or changes its permissions.
OracleChangeWithin(answers) ==
    /\ \E a \in answers \ {auth.oracle} : auth' = [auth EXCEPT !.oracle = a]
    /\ UNCHANGED <<handler, osFiles, diskCache, ops>>
    /\ AuthUnchanged

OracleChange == OracleChangeWithin(AuthAnswers)

\* A password attempt on a connection: the callback asks the oracle, and the
\* worker of a connection the handshake let in builds the handler of its
\* session channel from the permissions of the connection. The first handler
\* built is the one of the session whose requests are served below, and the
\* permissions it was built from are kept as granted.
AuthAttempt ==
    /\ auth.attempts < MaxLogins
    /\ LET r == PasswordCallback("u", auth.oracle)
           builds == r.err = "" /\ HasTenant(r.ext.uuid)
           first == builds /\ handler = NoHandler
       IN  /\ auth' = [auth EXCEPT
                         !.attempts = @ + 1,
                         !.calls = @ + 1,
                         !.asked = auth.oracle,
                         !.err = r.err,
                         !.ext = r.ext,
                         !.fs = IF builds THEN createHandler(r.ext) ELSE NoHandler,
                         !.granted = IF first THEN r.ext ELSE @]
           /\ handler' = IF first THEN createHandler(r.ext) ELSE handler
    /\ UNCHANGED <<osFiles, diskCache, ops>>
    /\ AuthUnchanged

\* server.Serve() hands a request of the session to its handler: the method
\* is called on the FileSystem value the Handlers value holds.
AuthServe ==
    /\ handler # NoHandler
    /\ ops < MaxServed
    /\ \E call \in ServedCalls, walk \in directorySize(osFiles, handler.Directory) :
        \E out \in {ServeRequestBy(handler, osFiles, diskCache, serverJson, call,
                                    walk, privileged)} :
            /\ osFiles' = out.files
            /\ diskCache' = out.cache
            /\ handler' = out.fs
    /\ ops' = ops + 1
    /\ UNCHANGED auth
    /\ AuthUnchanged

AuthNext ==
    \/ OracleChange
    \/ AuthAttempt

SpecAuth == AuthInit /\ [][AuthNext]_vars

\* SpecPrincipal: the session of the first attempt that was let in is served
\* its requests, while the oracle goes on changing its answer and further
\* attempts are made with the credential.

PrincipalInit == AuthInitWith(PrincipalAnswers)

\* The panel changes what the oracle answers while the session lasts.
PrincipalOracleChange == OracleChangeWithin(PrincipalAnswers)

PrincipalNext ==
    \/ PrincipalOracleChange
    \/ AuthAttempt
    \/ AuthServe

SpecPrincipal == PrincipalInit /\ [][PrincipalNext]_vars

\* C22: the handler of a session that follows a 200 answer of the oracle
\* holds the permission list of the answer and, as tenant id, the answer's
\* server field.
C22_PermissionsRoundTrip ==
    (auth.attempts > 0 /\ auth.asked.status = 200 /\ auth.fs # NoHandler) =>
        /\ auth.fs.Permissions = auth.asked.permissions
        /\ auth.fs.UUID = auth.asked.server

\* C23: every password attempt asks the oracle, and its outcome is decided by
\* the answer to that call alone: it succeeds exactly for a 200 answer,
\* with the tenant and the permissions of that answer, it is refused after a
\* revocation whatever was granted before, and an attempt that gets the
\* answer the attempt before it got has the same outcome.
C23_AuthNeverCached ==
    [][ auth'.attempts = auth.attempts + 1 =>
          /\ auth'.calls = auth.calls + 1
          /\ auth'.calls = auth'.attempts
          /\ auth'.asked = auth.oracle
          /\ auth'.err = "" <=> auth.oracle.status = 200
          /\ auth.oracle.status = 200
                => /\ auth'.ext.uuid = auth.oracle.server
                   /\ auth'.ext.permissions = JoinComma(auth.oracle.permissions)
          /\ auth.oracle.status # 200 => auth'.fs = NoHandler
          /\ (auth.attempts > 0 /\ auth.asked = auth.oracle)
                => (auth'.err = auth.err /\ auth'.ext = auth.ext /\ auth'.fs = auth.fs)
      ]_vars

\* The second attempt, made after the oracle revoked a credential that had
\* been granted a handler, has been refused.
C23_Witness ==
    /\ auth.attempts = MaxLogins
    /\ auth.asked.status = 404
    /\ auth.err # ""
    /\ auth.fs = NoHandler
    /\ auth.calls = MaxLogins

\* C26: the session's principal is what createHandler built it as from the
\* permissions the connection was granted at its login: tenant id, tenant
\* root, permission list, read-only flag and ownership target; and no step
\* changes it, be it a request served by the handler, a change of the
\* oracle's answer or a later attempt with the same credential.
C26_PrincipalReadOnly ==
    /\ [](handler # NoHandler =>
            /\ handler = createHandler(auth.granted)
            /\ handler.UUID = auth.granted.uuid
            /\ handler.Directory = TenantRoot(auth.granted.uuid)
            /\ handler.Permissions = SplitComma(auth.granted.permissions)
            /\ ~handler.ReadOnly
            /\ handler.User = SftpUser)
    /\ [][ handler # NoHandler => handler' = handler ]_vars

\* The session has been served a Filewrite that filled the quota cache and a
\* request that changed the tree, the oracle has revoked the credential and a
\* later attempt with it was refused.
C26_Witness ==
    /\ ops = MaxServed
    /\ osFiles # InitTree
    /\ diskCache # EmptyCache
    /\ handler # NoHandler
    /\ auth.attempts = MaxLogins
    /\ auth.asked.status = 404
    /\ auth.fs = NoHandler

-----------------------------------------------------------------------------
\* SpecHostKey: the starts of the server on one base path, with the i/o
\* errors a start can meet and an operator who may remove the key file.

\* How many times the server is started in one behaviour of SpecHostKey.
MaxStarts == 4

\* The key file: whether <base>/.sftp/id_rsa exists, and the key its PEM
\* content parses to (0: the content is not a key).
NoKeyFile == [exists |-> FALSE, key |-> 0]
KeyFile(k) == [exists |-> TRUE, key |-> k]

\* The step of a start that fails, if any does.
StartFailures == {"none", "stat", "rsa", "mkdir", "open", "encode", "read", "listen"}

\* Server.generatePrivateKey, for k the key rsa.GenerateKey returns: the file
\* is opened with O_CREATE|O_TRUNC and the PEM block written to it.
generatePrivateKey(k, fail) ==
    IF fail \in {"rsa", "mkdir", "open"} THEN [err |-> fail, file |-> NoKeyFile]
    ELSE IF fail = "encode" THEN [err |-> fail, file |-> KeyFile(0)]
    ELSE [err |-> "", file |-> KeyFile(k)]

\* Initalize from ioutil.ReadFile on: read the file, parse it, add the host
\* key, listen.
LoadHostKey(file, gens, fail) ==
    IF fail = "read" THEN [err |-> fail, file |-> file, gens |-> gens, loaded |-> 0]
    ELSE IF file.key = 0
    THEN [err |-> "parse", file |-> file, gens |-> gens, loaded |-> 0]
    ELSE IF fail = "listen"
    THEN [err |-> fail, file |-> file, gens |-> gens, loaded |-> 0]
    ELSE [err |-> "", file |-> file, gens |-> gens, loaded |-> file.key]

\* Server.Initalize up to the accept loop: the key file after it, how many
\* times generatePrivateKey has been called, the host key of the server
\* (0 when Initalize returned an error) and the error.
Initalize(file, gens, fail) ==
    LET statErr == IF fail = "stat" THEN "EACCES"
                   ELSE IF file.exists THEN "" ELSE "ENOENT"
        gen == generatePrivateKey(gens + 1, fail)
    IN  IF IsNotExist(statErr)
        THEN IF gen.err # ""
             THEN [err |-> gen.err, file |-> gen.file, gens |-> gens + 1, loaded |-> 0]
             ELSE LoadHostKey(gen.file, gens + 1, fail)
        ELSE IF statErr # ""
        THEN [err |-> statErr, file |-> file, gens |-> gens, loaded |-> 0]
        ELSE LoadHostKey(file, gens, fail)

HostKeyInit ==
    /\ pIn = 0
    /\ pOut = 0
    /\ handler = 0
    /\ osFiles = 0
    /\ diskCache = 0
    /\ serverJson = 0
    /\ privileged = 0
    /\ last = 0
    /\ ops = 0
    /\ dirWalk = 0
    /\ conns = 0
    /\ lockCalls = 0
    /\ session = 0
    /\ canCall = 0
    /\ auth = 0
    /\ quotaLog = 0
    /\ writers = 0
    /\ tenants = 0
    /\ hostKey = [file |-> NoKeyFile, gens |-> 0, starts |-> 0, running |-> FALSE,
                  loaded |-> 0, err |-> ""]

HostKeyUnchanged ==
    UNCHANGED <<pathVars, handlerVars, walkVars, connVars, lockVars, sessionVars,
                canVars, authVars, ttlVars, raceVars, tenantVars>>

\* The server is started: Initalize runs, and the process either serves or
\* exits with the error.
StartServer ==
    /\ ~hostKey.running
    /\ hostKey.starts < MaxStarts
    /\ \E fail \in StartFailures :
        LET r == Initalize(hostKey.file, hostKey.gens, fail)
        IN  hostKey' = [file |-> r.file, gens |-> r.gens, starts |-> hostKey.starts + 1,
                        running |-> r.err = "", loaded |-> r.loaded, err |-> r.err]
    /\ HostKeyUnchanged

\* The process is stopped.
StopServer ==
    /\ hostKey.running
    /\ hostKey' = [hostKey EXCEPT !.running = FALSE, !.loaded = 0]
    /\ HostKeyUnchanged

\* The operator removes the key file.
RemoveKeyFile ==
    /\ hostKey.file.exists
    /\ hostKey' = [hostKey EXCEPT !.file = NoKeyFile]
    /\ HostKeyUnchanged

HostKeyNext ==
    \/ StartServer
    \/ StopServer
    \/ RemoveKeyFile

SpecHostKey == HostKeyInit /\ [][HostKeyNext]_vars

\* C24: a start that finds the key file present leaves the file as it is and
\* does not call the generation, and when it comes to serve its host key is
\* the key of that file; the generation is called only by a start that finds
\* no file, and what it writes is the key the start then serves with.
C24_HostKeyIdempotent ==
    [][ hostKey'.starts = hostKey.starts + 1 =>
          /\ hostKey.file.exists
                => /\ hostKey'.file = hostKey.file
                   /\ hostKey'.gens = hostKey.gens
          /\ hostKey'.gens # hostKey.gens => ~hostKey.file.exists
          /\ hostKey'.running
                => /\ hostKey'.file.exists
                   /\ hostKey'.loaded = hostKey'.file.key
                   /\ hostKey'.loaded # 0
          /\ (hostKey.file.exists /\ hostKey'.running)
                => hostKey'.loaded = hostKey.file.key ]_vars

\* The last of the starts serves with the key the first start generated.
C24_Witness ==
    /\ hostKey.starts = MaxStarts
    /\ hostKey.running
    /\ hostKey.gens = 1
    /\ hostKey.loaded = 1
    /\ hostKey.file = KeyFile(1)

-----------------------------------------------------------------------------
\* SpecQuotaTTL: the quota check over time. The entries of the cache expire
\* one by one, and the panel rewrites the tenant's server configuration.

\* How many calls, expiries and writes of data one behaviour of SpecQuotaTTL
\* makes.
MaxTTLOps == 3

TTLSizes == {0, MiB, 2 * MiB, 11 * MiB}

\* The tenant's directory with nothing in it.
EmptyTenantTree ==
    (Slash :> DirNode(ModeDir, "root"))
    @@ (DataRoot :> DirNode(ModeDir, "root"))
    @@ (TenantRoot(T1) :> DirNode(ModeDir, SftpUser))

\* No quota check has been made.
NoQuotaLog ==
    [op |-> "none", before |-> EmptyCache, json |-> JsonUnreadable, walk |-> 0,
     ok |-> TRUE, read |-> FALSE, walked |-> FALSE, space |-> 0,
     due |-> {}, pending |-> {}]

TTLInit ==
    /\ pIn = NoCall
    /\ pOut = PathError
    /\ handler \in {NewHandler(T1, <<"*">>, FALSE, ddc) : ddc \in BOOLEAN}
    /\ osFiles \in {QuotaTree(size) : size \in TTLSizes} \cup {EmptyTenantTree}
    /\ diskCache = EmptyCache
    /\ serverJson \in QuotaConfigs
    /\ privileged = TRUE
    /\ last = NoRequest
    /\ ops = 0
    /\ dirWalk = 0
    /\ conns = 0
    /\ lockCalls = 0
    /\ session = 0
    /\ canCall = 0
    /\ auth = 0
    /\ hostKey = 0
    /\ quotaLog = NoQuotaLog
    /\ writers = {}
    /\ tenants = 0

TTLUnchanged ==
    UNCHANGED <<pathVars, walkVars, connVars, lockVars, sessionVars, canVars,
                authVars, hostKeyVars, tenantVars>>

\* A Filewrite of the file b or of the absent c, and what its quota check
\* found in the cache, read and computed.
TTLWrite ==
    /\ ops < MaxTTLOps
    /\ \E f \in {<<"/", "b">>, <<"/", "c">>},
          walk \in directorySize(osFiles, handler.Directory) :
        LET req == Request("Put", f)
            hs == hasSpace(handler, diskCache, serverJson, walk)
            out == Filewrite(handler, osFiles, diskCache, serverJson, req, walk,
                             privileged)
        IN  /\ Effects("Filewrite", req, out, QuotaNote(handler, req, hs))
            /\ writers' = WritersAfter(handler, req, out)
            /\ quotaLog' = [op |-> "call", before |-> diskCache, json |-> serverJson,
                            walk |-> walk, ok |-> hs.ok, read |-> hs.read,
                            walked |-> hs.walked, space |-> hs.space,
                            due |-> quotaLog.pending, pending |-> {}]
    /\ UNCHANGED <<serverJson, privileged>>
    /\ TTLUnchanged

\* The peer writes through a writer a Filewrite has returned, be it the last
\* call or an earlier one.
TTLData ==
    /\ ops < MaxTTLOps
    /\ \E p \in writers, size \in TTLSizes \ {0} :
        osFiles' = [osFiles EXCEPT ![p].size = size]
    /\ last' = [NoRequest EXCEPT !.op = "data"]
    /\ ops' = ops + 1
    /\ quotaLog' = [quotaLog EXCEPT !.op = "data"]
    /\ UNCHANGED <<handler, diskCache, serverJson, privileged, writers>>
    /\ TTLUnchanged

\* An entry of the cache reaches its own expiration time and is gone.
TTLExpire ==
    /\ ops < MaxTTLOps
    /\ \E k \in DOMAIN diskCache :
        /\ diskCache' = [j \in DOMAIN diskCache \ {k} |-> diskCache[j]]
        /\ quotaLog' = [quotaLog EXCEPT !.op = "expire", !.pending = @ \cup {k}]
    /\ last' = [NoRequest EXCEPT !.op = "expire"]
    /\ ops' = ops + 1
    /\ UNCHANGED <<handler, osFiles, serverJson, privileged, writers>>
    /\ TTLUnchanged

\* The panel rewrites the server configuration, or the file goes away.
ConfigChange ==
    /\ quotaLog.op # "config"
    /\ serverJson' \in QuotaConfigs \ {serverJson}
    /\ quotaLog' = [quotaLog EXCEPT !.op = "config"]
    /\ UNCHANGED <<handler, osFiles, diskCache, privileged, last, ops, writers>>
    /\ TTLUnchanged

TTLNext ==
    \/ TTLWrite
    \/ TTLData
    \/ TTLExpire
    \/ ConfigChange

SpecQuotaTTL == TTLInit /\ [][TTLNext]_vars

\* The last step was a Filewrite whose quota check looked at the cache.
TTLChecked == quotaLog.op = "call" /\ ~handler.DisableDiskCheck

\* C28: a check that finds no limit in the cache and cannot read the
\* configuration answers true, puts nothing into the cache and does not walk
\* the directory; one that reads a configuration without a number at
\* build.disk caches the limit 0 and answers true.
C28_UnreadableConfigAllows ==
    (TTLChecked /\ DiskKey(handler.UUID) \notin DOMAIN quotaLog.before) =>
        /\ ~quotaLog.json.readable
              => /\ quotaLog.ok
                 /\ last.quota = "allowed"
                 /\ diskCache = quotaLog.before
                 /\ ~quotaLog.walked
        /\ (quotaLog.json.readable /\ ~quotaLog.json.parses)
              => /\ LimitEntry.exists /\ LimitEntry.x = 0
                 /\ quotaLog.ok
                 /\ last.quota = "allowed"
                 /\ ~quotaLog.walked

\* A check that found no limit cached, after the limit's entry had expired
\* and the configuration had become unreadable, has allowed the write.
C28_Witness ==
    /\ TTLChecked
    /\ DiskKey(handler.UUID) \in quotaLog.due
    /\ ~quotaLog.json.readable
    /\ quotaLog.before # EmptyCache
    /\ quotaLog.ok
    /\ diskCache = quotaLog.before

CachedSentinelRead ==
    /\ TTLChecked
    /\ DiskKey(handler.UUID) \in DOMAIN quotaLog.before
    /\ quotaLog.before[DiskKey(handler.UUID)] = -2
    /\ quotaLog.read

\* C30: a check under a positive limit that finds the used value 0 in the
\* cache walks the directory as if there were no entry, and caches what the
\* walk returned.
C30_ZeroUsedRecomputed ==
    ( /\ TTLChecked
      /\ quotaLog.space > 0
      /\ UsedKey(handler.UUID) \in DOMAIN quotaLog.before
      /\ quotaLog.before[UsedKey(handler.UUID)] = 0 )
    => /\ quotaLog.walked
       /\ UsedEntry.exists /\ UsedEntry.x = quotaLog.walk

\* The last of a row of checks on a directory that holds nothing has found the
\* 0 the check before it cached, and walked again.
C30_Witness ==
    /\ TTLChecked
    /\ ops = MaxTTLOps
    /\ quotaLog.space > 0
    /\ UsedKey(handler.UUID) \in DOMAIN quotaLog.before
    /\ quotaLog.before[UsedKey(handler.UUID)] = 0
    /\ quotaLog.due = {}
    /\ quotaLog.walked
    /\ UsedEntry.x = 0

-----------------------------------------------------------------------------
\* SpecRace: several sessions of one tenant, each with the handler of its own
\* channel, call Filewrite on the same path. The lock of a handler is not
\* shared between handlers, so the os calls of the sessions interleave freely.

\* How many sessions write at the same time.
MaxSessions == 2

Sessions == 1..MaxSessions

\* The path all sessions write to, in a tenant directory that has no such
\* entry at the start.
RacePath == Child(TenantRoot(T1), <<"c">>)

\* The permission lists of the sessions: the owner, a sub-user who may save
\* and one who may create.
RacePerms ==
    { <<"*">>,
      <<"edit-files", "save-files">>,
      <<"create-files", "move-files", "delete-files">> }

\* A session that is in no call. hit tells what the last os.Create of the
\* session found at the path: "absent", "present", or "none" before any.
IdleWriter(perms) ==
    [fs |-> NewHandler(T1, perms, FALSE, FALSE), pc |-> "idle", result |-> "",
     hit |-> "none"]

RaceInit ==
    /\ pIn = 0
    /\ pOut = 0
    /\ handler = 0
    /\ osFiles = 0
    /\ diskCache = 0
    /\ serverJson = 0
    /\ privileged = 0
    /\ last = 0
    /\ ops = 0
    /\ dirWalk = 0
    /\ conns = 0
    /\ lockCalls = 0
    /\ session = 0
    /\ canCall = 0
    /\ auth = 0
    /\ hostKey = 0
    /\ quotaLog = 0
    /\ \E perms \in [Sessions -> RacePerms] :
          writers = [files |-> EmptyTenantTree,
                     calls |-> [s \in Sessions |-> IdleWriter(perms[s])]]
    /\ tenants = 0

RaceUnchanged ==
    UNCHANGED <<pathVars, handlerVars, walkVars, connVars, lockVars, sessionVars,
                canVars, authVars, hostKeyVars, ttlVars, tenantVars>>

\* Filewrite is called and passes the read-only check, the path check and
\* the quota check; it takes the lock of its own handler.
RaceCall(s) ==
    /\ writers.calls[s].pc = "idle"
    /\ writers' = [writers EXCEPT !.calls[s].pc = "stat", !.calls[s].result = ""]
    /\ RaceUnchanged

\* os.Stat(p) and the capability check that follows from what it found.
RaceStat(s) ==
    LET call == writers.calls[s]
        st == Stat(writers.files, RacePath)
        tag == IF IsNotExist(st.err) THEN "create-files" ELSE "save-files"
    IN  /\ call.pc = "stat"
        /\ writers' =
              IF st.err # "" /\ ~IsNotExist(st.err)
              THEN [writers EXCEPT !.calls[s].pc = "idle", !.calls[s].result = "Failure"]
              ELSE IF ~can(call.fs, tag)
              THEN [writers EXCEPT !.calls[s].pc = "idle",
                                   !.calls[s].result = "PermissionDenied"]
              ELSE [writers EXCEPT !.calls[s].pc =
                          IF IsNotExist(st.err) THEN "create" ELSE "truncate"]
        /\ RaceUnchanged

\* os.MkdirAll of the parent, on the pathway of an absent file: the parent
\* is there, so the call is the one Stat that finds it.
RaceMkdirAll(s) ==
    LET call == writers.calls[s]
        mk == MkdirAll(writers.files, Dir(RacePath))
    IN  /\ call.pc = "create"
        /\ writers' =
              IF mk.err # ""
              THEN [writers EXCEPT !.calls[s].pc = "idle", !.calls[s].result = "Failure"]
              ELSE [writers EXCEPT !.files = mk.files, !.calls[s].pc = "open"]
        /\ RaceUnchanged

\* os.Create(p), on both pathways, on the tree as it is by now: the file it
\* makes belongs to the user the server runs as until the chown.
RaceCreate(s) ==
    LET call == writers.calls[s]
        before == Stat(writers.files, RacePath)
        cr == Create(writers.files, RacePath)
    IN  /\ call.pc \in {"open", "truncate"}
        /\ writers' =
              IF cr.err # ""
              THEN [writers EXCEPT !.calls[s].pc = "idle", !.calls[s].result = "Failure"]
              ELSE [writers EXCEPT
                      !.files = cr.files,
                      !.calls[s].pc = "chown",
                      !.calls[s].hit = IF before.err = "" THEN "present" ELSE "absent"]
        /\ RaceUnchanged

\* os.Chown(p), whose error is only logged; the call returns the file.
RaceChown(s) ==
    LET call == writers.calls[s]
    IN  /\ call.pc = "chown"
        /\ writers' =
              [writers EXCEPT
                 !.files = Chown(writers.files, RacePath, call.fs.User, TRUE).files,
                 !.calls[s].pc = "writing",
                 !.calls[s].result = "nil"]
        /\ RaceUnchanged

\* The peer writes a byte through the writer it was returned, or closes it.
RaceData(s) ==
    /\ writers.calls[s].pc = "writing"
    /\ \E wrote \in BOOLEAN :
          writers' = [writers EXCEPT
                        !.files = IF wrote /\ RacePath \in DOMAIN writers.files
                                  THEN [writers.files EXCEPT ![RacePath].size = 1]
                                  ELSE writers.files,
                        !.calls[s].pc = IF wrote THEN "writing" ELSE "idle"]
    /\ RaceUnchanged

RaceNext ==
    \E s \in Sessions :
        \/ RaceCall(s)
        \/ RaceStat(s)
        \/ RaceMkdirAll(s)
        \/ RaceCreate(s)
        \/ RaceChown(s)
        \/ RaceData(s)

SpecRace == RaceInit /\ [][RaceNext]_vars

\* C34: the os.Create of a Filewrite by a principal without save-files never
\* meets a file that exists at the path.
C34_NoTruncateWithoutSave ==
    \A s \in Sessions :
        ~can(writers.calls[s].fs, "save-files") => writers.calls[s].hit # "present"

-----------------------------------------------------------------------------
\* SpecTenants: two tenants on one data root and one quota cache. Tenant A
\* makes Filewrite calls, one at a time; tenant B makes Filewrite and Filecmd
\* calls, which run at the same time as each other and as A's. A call is a
\* sequence of steps, one for each access to the cache and each system call
\* the os functions of the call make (those of the standard library of Go
\* 1.13, the version go.mod names), and the steps of the calls in progress
\* interleave: the lock of a handler belongs to the copy of the handler the
\* call was made on and orders nothing. Beside the tree and the cache the two
\* tenants share, the state holds the tree and the cache A would have alone:
\* the same calls of A, and none of B.

\* The number of calls the two tenants make.
MaxTenantOps == 2

TenantA == NewHandler(T11, <<"*">>, FALSE, FALSE)
TenantB == NewHandler(T1, <<"*">>, FALSE, FALSE)

TenantOf(who) == IF who = "A" THEN TenantA ELSE TenantB

\* The tree of InitTree, with one MiB in the file of tenant A.
TenantsTree ==
    [InitTree EXCEPT ![Child(TenantRoot(T11), <<"a">>)] =
                        FileNode(MiB, ModeFile, SftpUser)]

TenantPaths == { <<"/", "a">>, <<"/", "c">> }

TenantLimits == {JsonDisk(1), JsonDisk(3)}

\* The requests tenant B makes of Filecmd.
TenantCmds == CmdRequests

\* The paths tenant B makes Filewrite requests for.
TenantWrites == RequestPaths

CallIds == 1..MaxTenantOps

\* The answers hasSpace can give for a handler: one for each value the walk
\* of its directory can return.
hasSpaceAnswers(fs, files, cache, json) ==
    {hasSpace(fs, cache, json, w).ok : w \in directorySize(files, fs.Directory)}

\* An open directory is held as the real path of the directory, which
\* follows the directory when it is renamed; the descriptor of a directory
\* that has been removed is Closed, and every call on it fails with ENOENT.
Closed == <<>>

\* A call that has not been made. A call in progress holds its position pc,
\* the request, the paths buildPath resolved (p, target), the limit hasSpace
\* found (space), what the walk of directorySize has listed so far (snap) and
\* the ReadDir calls of the walk that are in progress (readers), the
\* directory MkdirAll is at (cur) and the ones it has yet to make (mk), the
\* error of a system call that is decided on later (held), the directory
\* os.Rename found at the new name (id), the removeAllFrom calls in progress
\* (frames), the path of its chown (loc), the answer of hasSpace and the
\* result; a call of A also holds the answers and the result it has alone.
NoTenantCall ==
    [who |-> "", op |-> "", pc |-> "none", req |-> Request("", <<>>), p |-> <<>>,
     target |-> <<>>, space |-> 0, snap |-> <<>>, readers |-> <<>>, cur |-> <<>>,
     mk |-> <<>>, held |-> "", id |-> Closed, frames |-> <<>>, loc |-> <<>>,
     answer |-> "none", result |-> "", aloneOk |-> {}, aloneResult |-> ""]

\* A call that has returned: what it answered is kept.
Finished(c) ==
    [NoTenantCall EXCEPT !.who = c.who, !.op = c.op, !.pc = "done",
                         !.answer = c.answer, !.result = c.result,
                         !.aloneOk = c.aloneOk, !.aloneResult = c.aloneResult]

Returns(c, result) == [c EXCEPT !.pc = "done", !.result = result]

\* The outcome of a step: the call, the tree and the cache after it, and what
\* it did to directories that may be open: the one it moved (from, to) and
\* the ones it removed (gone).
After(c, files, cache) ==
    [call |-> c, files |-> files, cache |-> cache, from |-> <<>>, to |-> <<>>,
     gone |-> {}]

\* An open directory after a step with outcome n.
Tracked(fd, n) ==
    IF fd = Closed \/ fd \in n.gone THEN Closed
    ELSE IF n.from # <<>> /\ (fd = n.from \/ Below(n.from, fd))
    THEN Moved(fd, n.from, n.to)
    ELSE fd

\* A call in progress after a step with outcome n of any call.
TrackedCall(c, n) ==
    [c EXCEPT !.id = Tracked(@, n),
              !.readers = [d \in DOMAIN @ |-> [@[d] EXCEPT !.fd = Tracked(@, n)]],
              !.frames = [i \in DOMAIN @ |->
                             [@[i] EXCEPT !.fd = Tracked(@, n),
                                          !.sub = Tracked(@, n)]]]

\* hasSpace returns true: Filewrite goes on to its open section.
Allowed(c) == [c EXCEPT !.pc = "stat", !.answer = "true"]

\* The comparison that ends hasSpace, and the return of Filewrite on false.
Decided(c, size) ==
    IF WithinLimit(size, c.space) THEN Allowed(c)
    ELSE [Returns(c, "Failure") EXCEPT !.answer = "false"]

\* A ReadDir of the walk that has not opened its directory.
NewReader == [stage |-> "open", fd |-> Closed, names |-> {}]

\* What the walk holds before its first ReadDir: the directory of the tenant.
WalkStart(fs) ==
    (fs.Directory :> DirNode(ModeDir, SftpUser))
    @@ (DataRoot :> DirNode(ModeDir, "root"))
    @@ (Slash :> DirNode(ModeDir, "root"))

\* The names of the entries of the open directory fd.
Names(files, fd) == {Base(q) : q \in Children(files, fd)}

\* The steps of hasSpace that read or write the cache: Cache.Get of the
\* limit; ReadFile of the configuration, which holds one of limits; Cache.Set
\* of the limit; Cache.Get of the used bytes; Cache.Set of what the walk
\* returned, which is any of the values the unsynchronised additions of the
\* walk can leave.
QuotaSteps(fs, c, files, cache, limits) ==
    LET got == CacheGet(cache, DiskKey(fs.UUID))
        space0 == IF got.exists THEN got.x ELSE -2
        used == CacheGet(cache, UsedKey(fs.UUID))
        size0 == IF used.exists THEN used.x ELSE 0
    IN  CASE c.pc = "disk" ->
                {After(IF space0 = -2 THEN [c EXCEPT !.pc = "config"]
                       ELSE IF space0 <= 0 THEN Allowed(c)
                       ELSE [c EXCEPT !.pc = "used", !.space = space0],
                       files, cache)}
          [] c.pc = "config" ->
                {After(IF lim.err THEN Allowed(c)
                       ELSE [c EXCEPT !.pc = "setdisk", !.space = lim.s],
                       files, cache) : lim \in {ReadLimit(j) : j \in limits}}
          [] c.pc = "setdisk" ->
                {After(IF c.space <= 0 THEN Allowed(c) ELSE [c EXCEPT !.pc = "used"],
                       files, CacheSet(cache, DiskKey(fs.UUID), c.space))}
          [] c.pc = "used" ->
                {After(IF size0 # 0 THEN Decided(c, size0)
                       ELSE [c EXCEPT !.pc = "walk",
                                      !.snap = WalkStart(fs),
                                      !.readers = (fs.Directory :> NewReader)],
                       files, cache)}
          [] c.pc = "setused" ->
                {After(Decided([c EXCEPT !.snap = <<>>], w), files,
                       CacheSet(cache, UsedKey(fs.UUID), w)) :
                    w \in directorySize(c.snap, fs.Directory)}

\* The walk once the ReadDir of directory d has returned: without the
\* entries of d when it failed, and with a worker, which starts with a
\* ReadDir of its own, for every directory among the entries when it did not.
\* The walk is over when no ReadDir is left.
ReadDirReturns(c, d, failed) ==
    LET listed == {q \in DOMAIN c.snap : Below(d, q) /\ Dir(q) = d}
        snap == IF failed THEN [q \in DOMAIN c.snap \ listed |-> c.snap[q]]
                ELSE c.snap
        dirs == IF failed THEN {} ELSE {q \in listed : c.snap[q].kind = "dir"}
        readers == [q \in (DOMAIN c.readers \ {d}) \cup dirs |->
                        IF q \in dirs THEN NewReader ELSE c.readers[q]]
    IN  [c EXCEPT !.snap = snap,
                  !.readers = readers,
                  !.pc = IF DOMAIN readers = {} THEN "setused" ELSE "walk"]

\* The steps of directorySize that read the tree, for the ReadDir of any of
\* the directories whose worker is running: the open of the directory, the
\* getdents that reads its names, and an lstat for each name, in the order
\* the directory holds them, made on the path of the directory and the name.
\* A name that is gone at its lstat is left out; any other error fails the
\* ReadDir, and the directory then counts for nothing.
WalkSteps(fs, c, files, cache) ==
    UNION { LET rd == c.readers[d]
                at == Resolve(files, d, TRUE)
                names == Names(files, rd.fd)
            IN  CASE rd.stage = "open" ->
                        {After(IF at.err # "" \/ files[at.path].kind # "dir"
                               THEN ReadDirReturns(c, d, TRUE)
                               ELSE [c EXCEPT !.readers[d] =
                                        [stage |-> "getdents", fd |-> at.path,
                                         names |-> {}]],
                               files, cache)}
                  [] rd.stage = "getdents" ->
                        {After(IF rd.fd = Closed THEN ReadDirReturns(c, d, TRUE)
                               ELSE IF names = {} THEN ReadDirReturns(c, d, FALSE)
                               ELSE [c EXCEPT !.readers[d] =
                                        [stage |-> "lstat", fd |-> rd.fd,
                                         names |-> names]],
                               files, cache)}
                  [] rd.stage = "lstat" ->
                        { LET q == Child(d, name)
                              fi == Lstat(files, q)
                              rest == rd.names \ {name}
                              seen == IF fi.err = "" THEN (q :> fi.node) @@ c.snap
                                      ELSE c.snap
                              cc == [c EXCEPT !.snap = seen,
                                              !.readers[d].names = rest]
                          IN  After(IF fi.err # "" /\ ~IsNotExist(fi.err)
                                    THEN ReadDirReturns(c, d, TRUE)
                                    ELSE IF rest = {} THEN ReadDirReturns(cc, d, FALSE)
                                    ELSE cc,
                                    files, cache) : name \in rd.names }
          : d \in DOMAIN c.readers }

\* What follows a MkdirAll that made its directory: the create of Filewrite,
\* the chown of Filecmd.
AfterMkdirAll(c) ==
    IF c.op = "Filewrite" THEN [c EXCEPT !.pc = "create", !.cur = <<>>]
    ELSE [c EXCEPT !.pc = "chown", !.cur = <<>>]

\* MkdirAll has made, or found, the directory c.cur: the MkdirAll that was
\* called for it goes on to Mkdir the directory it was called from.
MkdirAllReturns(c) ==
    IF c.mk = <<>> THEN AfterMkdirAll(c)
    ELSE [c EXCEPT !.pc = "mkdir",
                   !.cur = c.mk[Len(c.mk)],
                   !.mk = SubSeq(c.mk, 1, Len(c.mk) - 1),
                   !.held = ""]

\* The steps of os.MkdirAll: the Stat of the directory; when it is not there,
\* MkdirAll of its parent first, unless that is the root; then Mkdir; and an
\* Lstat after a Mkdir that failed, which is no error if it finds a
\* directory.
MkdirAllSteps(fs, c, files, cache) ==
    LET st == Stat(files, c.cur)
        made == Mkdir(files, c.cur)
        fi == Lstat(files, c.cur)
        failed == Returns([c EXCEPT !.cur = <<>>, !.mk = <<>>, !.held = ""], "Failure")
    IN  CASE c.pc = "mkstat" ->
                {After(IF st.err = ""
                       THEN IF st.node.kind = "dir" THEN MkdirAllReturns(c) ELSE failed
                       ELSE IF Dir(c.cur) = Slash THEN [c EXCEPT !.pc = "mkdir"]
                       ELSE [c EXCEPT !.mk = Append(@, c.cur), !.cur = Dir(c.cur)],
                       files, cache)}
          [] c.pc = "mkdir" ->
                {After(IF made.err = "" THEN MkdirAllReturns(c)
                       ELSE [c EXCEPT !.pc = "mklstat", !.held = made.err],
                       made.files, cache)}
          [] c.pc = "mklstat" ->
                {After(IF fi.err = "" /\ fi.node.kind = "dir" THEN MkdirAllReturns(c)
                       ELSE failed,
                       files, cache)}

\* The steps of the open section of Filewrite: os.Stat, the steps of
\* os.MkdirAll, os.Create and os.Chown, each on the tree as it is when it is
\* made.
OpenSteps(fs, c, files, cache) ==
    LET st == Stat(files, c.p)
        cr == Create(files, c.p)
    IN  CASE c.pc = "stat" ->
                {After(IF IsNotExist(st.err)
                       THEN IF ~can(fs, "create-files")
                            THEN Returns(c, "PermissionDenied")
                            ELSE [c EXCEPT !.pc = "mkstat", !.cur = Dir(c.p)]
                       ELSE IF st.err # "" THEN Returns(c, "Failure")
                       ELSE IF ~can(fs, "save-files")
                       THEN Returns(c, "PermissionDenied")
                       ELSE [c EXCEPT !.pc = "create"],
                       files, cache)}
          [] c.pc = "create" ->
                {After(IF cr.err # "" THEN Returns(c, "Failure")
                       ELSE [c EXCEPT !.pc = "chown", !.loc = c.p, !.result = "nil"],
                       cr.files, cache)}

\* unlink(2)
Unlink(files, p) ==
    LET r == Resolve(files, p, FALSE)
    IN  IF r.err # "" THEN [err |-> r.err, files |-> files]
        ELSE IF files[r.path].kind = "dir" THEN [err |-> "EISDIR", files |-> files]
        ELSE [err |-> "", files |-> Without(files, r.path)]

\* rmdir(2): the result names the directory it removed.
Rmdir(files, p) ==
    LET r == Resolve(files, p, FALSE)
        fail(e) == [err |-> e, files |-> files, gone |-> {}]
    IN  IF r.err # "" THEN fail(r.err)
        ELSE IF files[r.path].kind # "dir" THEN fail("ENOTDIR")
        ELSE IF r.path = Slash THEN fail("EBUSY")
        ELSE IF Children(files, r.path) # {} THEN fail("ENOTEMPTY")
        ELSE [err |-> "", files |-> Without(files, r.path), gone |-> {r.path}]

\* unlinkat(fd, name, 0) and unlinkat(fd, name, AT_REMOVEDIR): unlink and
\* rmdir of the entry name of the open directory fd.
UnlinkAt(files, fd, name, removeDir) ==
    LET q == Child(fd, name)
        fail(e) == [err |-> e, files |-> files, gone |-> {}]
    IN  IF fd = Closed \/ q \notin DOMAIN files THEN fail("ENOENT")
        ELSE IF ~removeDir
        THEN IF files[q].kind = "dir" THEN fail("EISDIR")
             ELSE [err |-> "", files |-> Without(files, q), gone |-> {}]
        ELSE IF files[q].kind # "dir" THEN fail("ENOTDIR")
        ELSE IF Children(files, q) # {} THEN fail("ENOTEMPTY")
        ELSE [err |-> "", files |-> Without(files, q), gone |-> {q}]

\* The removeAllFrom(parent, base) that starts on entry base of the open
\* directory fd.
NewFrame(fd, base) ==
    [fd |-> fd, base |-> base, stage |-> "unlinkat", sub |-> Closed, names |-> {},
     err |-> ""]

\* The innermost removeAllFrom returns err to its caller: to the loop over
\* the names of the removeAllFrom that called it, which keeps the first error
\* and, after the last name, goes on to remove its own directory; or to
\* RemoveAll, which returns it.
FrameReturns(c, below, err) ==
    IF below = <<>>
    THEN Returns([c EXCEPT !.frames = <<>>], IF err = "" THEN "Ok" ELSE "Failure")
    ELSE LET top == below[Len(below)]
         IN  [c EXCEPT !.frames =
                [below EXCEPT ![Len(below)] =
                    [top EXCEPT !.err = IF @ = "" THEN err ELSE @,
                                !.stage = IF top.names = {} THEN "rmdirat" ELSE "each",
                                !.sub = IF top.names = {} THEN Closed ELSE @]]]

\* The unlinkat that starts removeAllFrom(fd, base), called with the frames
\* below: the call returns when the entry is removed or gone, and goes on to
\* look at the entry when it is a directory.
RemoveAllFrom(c, below, fd, base, files, cache) ==
    LET ul == UnlinkAt(files, fd, base, FALSE)
    IN  After(IF ul.err = "" \/ IsNotExist(ul.err) THEN FrameReturns(c, below, "")
              ELSE IF ul.err # "EISDIR" THEN FrameReturns(c, below, ul.err)
              ELSE [c EXCEPT !.frames =
                        Append(below, [NewFrame(fd, base) EXCEPT !.stage = "fstatat"])],
              ul.files, cache)

\* The steps of removeAllFrom, for the innermost call: unlinkat of the entry;
\* fstatat of an entry that is a directory; openat of the directory, which
\* follows a link; the getdents that reads its names; removeAllFrom for each
\* name, in the order the directory holds them; and unlinkat with
\* AT_REMOVEDIR of the entry.
FrameSteps(fs, c, files, cache) ==
    LET n == Len(c.frames)
        top == c.frames[n]
        below == SubSeq(c.frames, 1, n - 1)
        q == Child(top.fd, top.base)
        there == top.fd # Closed /\ q \in DOMAIN files
        at == Resolve(files, q, TRUE)
        names == Names(files, top.sub)
        rd == UnlinkAt(files, top.fd, top.base, TRUE)
        to(stage) == [c EXCEPT !.frames[n].stage = stage]
    IN  CASE top.stage = "unlinkat" ->
                {RemoveAllFrom(c, below, top.fd, top.base, files, cache)}
          [] top.stage = "fstatat" ->
                {After(IF ~there THEN FrameReturns(c, below, "")
                       ELSE IF files[q].kind # "dir" THEN FrameReturns(c, below, "EISDIR")
                       ELSE to("openat"),
                       files, cache)}
          [] top.stage = "openat" ->
                {After(IF ~there \/ IsNotExist(at.err) THEN FrameReturns(c, below, "")
                       ELSE IF at.err # ""
                       THEN [c EXCEPT !.frames[n].stage = "rmdirat",
                                      !.frames[n].err = at.err]
                       ELSE IF files[at.path].kind # "dir"
                       THEN FrameReturns(c, below, "ENOTDIR")
                       ELSE [c EXCEPT !.frames[n].stage = "getdents",
                                      !.frames[n].sub = at.path],
                       files, cache)}
          [] top.stage = "getdents" ->
                {After(IF top.sub = Closed THEN FrameReturns(c, below, "")
                       ELSE IF names = {}
                       THEN [c EXCEPT !.frames[n].stage = "rmdirat",
                                      !.frames[n].sub = Closed]
                       ELSE [c EXCEPT !.frames[n].stage = "each",
                                      !.frames[n].names = names],
                       files, cache)}
          [] top.stage = "each" ->
                {RemoveAllFrom(c,
                               Append(below, [top EXCEPT !.names = @ \ {name}]),
                               top.sub, name, files, cache) : name \in top.names}
          [] top.stage = "rmdirat" ->
                {[After(FrameReturns(c, below,
                                     IF rd.err = "" \/ IsNotExist(rd.err) THEN ""
                                     ELSE IF top.err # "" THEN top.err
                                     ELSE rd.err),
                        rd.files, cache) EXCEPT !.gone = rd.gone]}

\* The steps of os.Remove: unlink, and rmdir when that failed; the error is
\* the one of rmdir unless that is ENOTDIR. os.RemoveAll starts with them,
\* returns when they removed the entry or found none, and else opens the
\* parent directory and calls removeAllFrom on the entry.
RemoveSteps(fs, c, files, cache) ==
    LET ul == Unlink(files, c.p)
        rd == Rmdir(files, c.p)
        err == IF rd.err # "ENOTDIR" THEN rd.err ELSE c.held
        all == c.req.Method = "Rmdir"
        at == Resolve(files, Dir(c.p), TRUE)
        cc == [c EXCEPT !.held = ""]
    IN  CASE c.pc = "unlink" ->
                {After(IF ul.err = "" THEN Returns(c, "Ok")
                       ELSE [c EXCEPT !.pc = "rmdir", !.held = ul.err],
                       ul.files, cache)}
          [] c.pc = "rmdir" ->
                {[After(IF rd.err = "" THEN Returns(cc, "Ok")
                        ELSE IF ~all THEN Returns(cc, "Failure")
                        ELSE IF IsNotExist(err) THEN Returns(cc, "Ok")
                        ELSE [cc EXCEPT !.pc = "raopen"],
                        rd.files, cache) EXCEPT !.gone = rd.gone]}
          [] c.pc = "raopen" ->
                {After(IF IsNotExist(at.err) THEN Returns(c, "Ok")
                       ELSE IF at.err # "" \/ files[at.path].kind # "dir"
                       THEN Returns(c, "Failure")
                       ELSE [c EXCEPT !.pc = "frames",
                                      !.frames = <<NewFrame(at.path, Base(c.p))>>],
                       files, cache)}

\* The steps of os.Rename: Lstat of the new name; when that is a directory,
\* Lstat of the old name and the comparison of the two; rename(2).
RenameSteps(fs, c, files, cache) ==
    LET fi == Lstat(files, c.target)
        ofi == Lstat(files, c.p)
        rn == SysRename(files, c.p, c.target)
        cc == [c EXCEPT !.id = Closed]
    IN  CASE c.pc = "rnlstat" ->
                {After(IF fi.err = "" /\ fi.node.kind = "dir"
                       THEN [c EXCEPT !.pc = "rnlstat2", !.id = fi.path]
                       ELSE [c EXCEPT !.pc = "rename"],
                       files, cache)}
          [] c.pc = "rnlstat2" ->
                {After(IF ofi.err # "" THEN Returns(cc, "Failure")
                       ELSE IF c.target = c.p \/ ofi.path # c.id
                       THEN Returns(cc, "Failure")
                       ELSE [cc EXCEPT !.pc = "rename"],
                       files, cache)}
          [] c.pc = "rename" ->
                {[After(IF rn.err # "" THEN Returns(c, "Failure")
                        ELSE [c EXCEPT !.pc = "chown"],
                        rn.files, cache)
                    EXCEPT !.from = rn.from, !.to = rn.to, !.gone = rn.gone]}

\* The steps of Filecmd that are one system call: os.Chmod, os.Symlink, and
\* the os.Chown that ends the call, as it ends Filewrite.
CmdSteps(fs, c, files, cache) ==
    LET ch == Chmod(files, c.p, IF c.req.IsDir THEN ModeDir ELSE ModeFile)
        sl == Symlink(files, c.p, c.target)
    IN  CASE c.pc = "chmod" ->
                {After(Returns(c, IF ch.err # "" THEN "Failure" ELSE "nil"),
                       ch.files, cache)}
          [] c.pc = "symlink" ->
                {After(IF sl.err # "" THEN Returns(c, "Failure")
                       ELSE [c EXCEPT !.pc = "chown"],
                       sl.files, cache)}
          [] c.pc = "chown" ->
                {After(Returns(c, c.result),
                       Chown(files, c.loc, fs.User, TRUE).files, cache)}

\* The steps the call c can take next.
CallSteps(c, files, cache, limits) ==
    LET fs == TenantOf(c.who)
    IN  IF c.pc \in {"disk", "config", "setdisk", "used", "setused"}
        THEN QuotaSteps(fs, c, files, cache, limits)
        ELSE IF c.pc = "walk" THEN WalkSteps(fs, c, files, cache)
        ELSE IF c.pc \in {"stat", "create"} THEN OpenSteps(fs, c, files, cache)
        ELSE IF c.pc \in {"mkstat", "mkdir", "mklstat"}
        THEN MkdirAllSteps(fs, c, files, cache)
        ELSE IF c.pc \in {"unlink", "rmdir", "raopen"}
        THEN RemoveSteps(fs, c, files, cache)
        ELSE IF c.pc = "frames" THEN FrameSteps(fs, c, files, cache)
        ELSE IF c.pc \in {"rnlstat", "rnlstat2", "rename"}
        THEN RenameSteps(fs, c, files, cache)
        ELSE CmdSteps(fs, c, files, cache)

\* Filewrite up to the first step of hasSpace: the read-only check, buildPath
\* and the test of DisableDiskCheck.
WriteCall(who, f) ==
    LET fs == TenantOf(who)
        bp == buildPath(fs, f)
        c == [NoTenantCall EXCEPT !.who = who, !.op = "Filewrite",
                                  !.req = Request("Put", f)]
    IN  IF fs.ReadOnly THEN Finished(Returns(c, "OpUnsupported"))
        ELSE IF ~bp.ok THEN Finished(Returns(c, "NoSuchFile"))
        ELSE IF fs.DisableDiskCheck THEN Allowed([c EXCEPT !.p = bp.path])
        ELSE [c EXCEPT !.pc = "disk", !.p = bp.path]

\* Filecmd up to its first system call: the read-only check, buildPath of
\* the path and of the target, and the capability check of the method.
CmdCall(who, req) ==
    LET fs == TenantOf(who)
        bp == buildPath(fs, req.Filepath)
        bt == buildPath(fs, req.Target)
        c == [NoTenantCall EXCEPT !.who = who, !.op = "Filecmd", !.req = req]
        cc == [c EXCEPT !.p = bp.path,
                        !.target = IF req.Target # <<>> THEN bt.path ELSE <<>>,
                        !.loc = IF req.Target # <<>> THEN bt.path ELSE bp.path,
                        !.result = "Ok"]
        denied == Finished(Returns(c, "PermissionDenied"))
    IN  IF fs.ReadOnly THEN Finished(Returns(c, "OpUnsupported"))
        ELSE IF ~bp.ok THEN Finished(Returns(c, "NoSuchFile"))
        ELSE IF req.Target # <<>> /\ ~bt.ok THEN Finished(Returns(c, "OpUnsupported"))
        ELSE CASE req.Method = "Setstat" -> [cc EXCEPT !.pc = "chmod"]
               [] req.Method = "Rename" ->
                    IF ~can(fs, "move-files") THEN denied
                    ELSE [cc EXCEPT !.pc = "rnlstat"]
               [] req.Method = "Rmdir" ->
                    IF ~can(fs, "delete-files") THEN denied
                    ELSE [cc EXCEPT !.pc = "unlink"]
               [] req.Method = "Mkdir" ->
                    IF ~can(fs, "create-files") THEN denied
                    ELSE [cc EXCEPT !.pc = "mkstat", !.cur = bp.path]
               [] req.Method = "Symlink" ->
                    IF ~can(fs, "create-files") THEN denied
                    ELSE [cc EXCEPT !.pc = "symlink"]
               [] req.Method = "Remove" ->
                    IF ~can(fs, "delete-files") THEN denied
                    ELSE [cc EXCEPT !.pc = "unlink"]
               [] OTHER -> Finished(Returns(c, "OpUnsupported"))

TenantsInit ==
    /\ pIn = 0
    /\ pOut = 0
    /\ handler = 0
    /\ osFiles = 0
    /\ diskCache = 0
    /\ serverJson = 0
    /\ privileged = 0
    /\ last = 0
    /\ ops = 0
    /\ dirWalk = 0
    /\ conns = 0
    /\ lockCalls = 0
    /\ session = 0
    /\ canCall = 0
    /\ auth = 0
    /\ hostKey = 0
    /\ quotaLog = 0
    /\ writers = 0
    /\ \E json \in TenantLimits :
          tenants = [files |-> TenantsTree, cache |-> EmptyCache,
                     alone |-> [files |-> TenantsTree, cache |-> EmptyCache],
                     limit |-> json, ops |-> 0, escaped |-> FALSE,
                     calls |-> [i \in CallIds |-> NoTenantCall]]

TenantsUnchanged ==
    UNCHANGED <<pathVars, handlerVars, walkVars, connVars, lockVars, sessionVars,
                canVars, authVars, hostKeyVars, ttlVars, raceVars>>

\* Tenant A calls Filewrite while no call of its own is in progress. Alone it
\* makes the same call, which runs from its start to its end there.
TenantAWrite ==
    /\ tenants.ops < MaxTenantOps
    /\ \A i \in CallIds :
          tenants.calls[i].who = "A" => tenants.calls[i].pc = "done"
    /\ \E f \in TenantPaths,
          wa \in directorySize(tenants.alone.files, TenantA.Directory) :
        \E outA \in {Filewrite(TenantA, tenants.alone.files, tenants.alone.cache,
                               tenants.limit, Request("Put", f), wa, TRUE)},
           okA \in {hasSpaceAnswers(TenantA, tenants.alone.files,
                                    tenants.alone.cache, tenants.limit)} :
            tenants' =
              [tenants EXCEPT
                 !.alone = [files |-> outA.files, cache |-> outA.cache],
                 !.ops = @ + 1,
                 !.calls[tenants.ops + 1] =
                    [WriteCall("A", f) EXCEPT
                        !.aloneOk = okA, !.aloneResult = outA.result]]
    /\ TenantsUnchanged

\* Tenant B calls Filewrite.
TenantBWrite ==
    /\ tenants.ops < MaxTenantOps
    /\ \E f \in TenantWrites :
        tenants' = [tenants EXCEPT
                      !.ops = @ + 1,
                      !.calls[tenants.ops + 1] = WriteCall("B", f),
                      !.escaped = @ \/ ~Inside(TenantB, f)]
    /\ TenantsUnchanged

\* Tenant B calls Filecmd.
TenantBCmd ==
    /\ tenants.ops < MaxTenantOps
    /\ \E req \in TenantCmds :
        tenants' = [tenants EXCEPT
                      !.ops = @ + 1,
                      !.calls[tenants.ops + 1] = CmdCall("B", req),
                      !.escaped = \/ @
                                  \/ ~Inside(TenantB, req.Filepath)
                                  \/ ~Inside(TenantB, req.Target)]
    /\ TenantsUnchanged

\* A call in progress takes its next step: an access to the cache or a
\* system call. The configuration of A holds the limit the state has for it,
\* the one of B any limit. The directories the calls have open follow what
\* the step moved or removed.
TenantStep ==
    /\ \E i \in CallIds :
        /\ tenants.calls[i].pc \notin {"none", "done"}
        /\ \E n \in CallSteps(tenants.calls[i], tenants.files, tenants.cache,
                              IF tenants.calls[i].who = "A" THEN {tenants.limit}
                              ELSE TenantLimits) :
            tenants' = [tenants EXCEPT
                          !.files = n.files,
                          !.cache = n.cache,
                          !.calls = [j \in CallIds |->
                                IF j # i THEN TrackedCall(tenants.calls[j], n)
                                ELSE IF n.call.pc = "done" THEN Finished(n.call)
                                ELSE TrackedCall(n.call, n)]]
    /\ TenantsUnchanged

TenantsNext ==
    \/ TenantAWrite
    \/ TenantBWrite
    \/ TenantBCmd
    \/ TenantStep

SpecTenants == TenantsInit /\ [][TenantsNext]_vars

\* Every call of tenant A was answered by hasSpace with an answer it can get
\* alone, and, once it has returned, had the result it has alone.
SameAsAlone ==
    \A i \in CallIds :
        tenants.calls[i].who = "A" =>
            /\ tenants.calls[i].answer # "none" =>
                  (tenants.calls[i].answer = "true") \in tenants.calls[i].aloneOk
            /\ tenants.calls[i].pc = "done" =>
                  tenants.calls[i].result = tenants.calls[i].aloneResult

\* C39: the answers the quota check of tenant A can give, and the result of
\* its Filewrite, are those of the same calls made without tenant B: they do
\* not depend on the cache entries, the files or the calls of B.
C39_QuotaIsolated == SameAsAlone

\* As long as no call of tenant B named a path or a target that resolves
\* outside the root of B, tenant A is answered as it is alone.
IsolatedWhileInside == ~tenants.escaped => SameAsAlone

====
